---- MODULE Spec2Model ----
(***************************************************************************)
(* Master orchestrator of the parallel ESLint runner                       *)
(* (master-slave/src/master.ts) together with the part of the worker       *)
(* process (worker.ts) that the master can observe: the messages a worker  *)
(* sends, its exit code or signal, and the 'error' event of its            *)
(* ChildProcess object.                                                    *)
(*                                                                         *)
(* The master is a single-threaded event loop: every action below is one   *)
(* handler run to completion.  A file path is modelled by a positive       *)
(* integer; RSS figures are in MiB (the byte figures of the source exceed  *)
(* the integers of the model checker; all comparisons are preserved).      *)
(***************************************************************************)
EXTENDS Integers, Sequences, FiniteSets, TLC

VARIABLES
  pc,                \* "init" before main() has run, "running", "exited"
  inputFiles,        \* the files found by glob() in main()
  batchIdCounter,
  workerIdCounter,
  pendingBatches,    \* Batch[]
  activeWorkers,     \* Map<number, WorkerState>
  completedResults,  \* Map<number, ESLint.LintResult[]>
  failedFiles,       \* FailedFile[]
  workerStats,       \* Summary["workers"]
  child,             \* forked processes whose listeners may still fire
  exitCode,          \* status of process.exit, NoExit while running
  summary,           \* summary.json: <<>> until finalize writes it
  batchLog,          \* history: ids of the batches, in creation order
  workerLog,         \* history: ids of the workers, in spawn order
  hweCalls,          \* history: handleWorkerError calls per worker id
  faults,            \* history: abnormal worker events so far
  ooms,              \* history: linting workers killed for memory so far
  nsamples,          \* history: memory messages received so far
  arg,               \* argument of the function under check, <<>> if none
  res                \* its result, <<>> while not computed

vars == <<pc, inputFiles, batchIdCounter, workerIdCounter, pendingBatches,
          activeWorkers, completedResults, failedFiles, workerStats, child,
          exitCode, summary, batchLog, workerLog, hweCalls, faults, ooms, nsamples,
          arg, res>>

----------------------------------------------------------------------------
(* CONFIG *)
maxWorkers == 2
maxRetries == 2
memoryThresholdPercent == 75
containerLimitMB == 4096
initialBatchDivisor == 4

(* Bounds of the model *)
MaxFiles == 5
DeepFiles == 17
MaxSamples == 1        \* memory messages in a run
MaxLen == 4            \* length of a file list handed to splitBatch
MaxName == 3           \* file names in such a list
MaxAbnormal == 1       \* abnormal worker events in a run
DeepKills == 3         \* memory kills in a run on the long file list

(* RSS readings, in MiB: one below and one at the spawn threshold *)
MasterRssValues == {200, 3072}
WorkerRssValues == {100, 3072}

(* Bounds and readings for canSpawnWorker on its own: sums below, at and
   above the threshold *)
AdmitWorkers == 3      \* active workers
AdmitSamples == 2      \* samples of one worker
AdmitMasterRss == {200, 2972, 3072}
AdmitWorkerRss == {100, 2872}

NoExit == -1
NoFile == 0
Null == -1             \* exit code of a process ended by a signal
NoSignal == "none"

----------------------------------------------------------------------------
(* Helpers *)
Min(a, b) == IF a < b THEN a ELSE b
Max(a, b) == IF a > b THEN a ELSE b

\* Math.ceil(a / b) for non-negative a and positive b
CeilDiv(a, b) == (a + b - 1) \div b

\* Array.prototype.slice(from, to): zero-based, end exclusive, clamped
Slice(s, from, to) == SubSeq(s, from + 1, Min(to, Len(s)))

Range(s) == {s[i] : i \in 1..Len(s)}

MapSet(m, k, v) == [x \in (DOMAIN m) \cup {k} |-> IF x = k THEN v ELSE m[x]]
MapDelete(m, k) == [x \in (DOMAIN m) \ {k} |-> m[x]]
EmptyMap == [x \in {} |-> 0]

RECURSIVE SumOver(_, _)
SumOver(f, S) ==
  IF S = {} THEN 0
  ELSE LET x == CHOOSE y \in S : TRUE IN f[x] + SumOver(f, S \ {x})

\* the files 1..n as the ordered list returned by glob()
FileList(n) == [i \in 1..n |-> i]

----------------------------------------------------------------------------
(* The master's mutable state as one record, so that the handlers compose *)
Cur ==
  [pc |-> pc, batchIdCounter |-> batchIdCounter,
   workerIdCounter |-> workerIdCounter, pendingBatches |-> pendingBatches,
   activeWorkers |-> activeWorkers, completedResults |-> completedResults,
   failedFiles |-> failedFiles, workerStats |-> workerStats, child |-> child,
   exitCode |-> exitCode, summary |-> summary, batchLog |-> batchLog,
   workerLog |-> workerLog, hweCalls |-> hweCalls]

CommitMaster(m) ==
  /\ pc' = m.pc
  /\ batchIdCounter' = m.batchIdCounter
  /\ workerIdCounter' = m.workerIdCounter
  /\ pendingBatches' = m.pendingBatches
  /\ activeWorkers' = m.activeWorkers
  /\ completedResults' = m.completedResults
  /\ failedFiles' = m.failedFiles
  /\ workerStats' = m.workerStats
  /\ child' = m.child
  /\ exitCode' = m.exitCode
  /\ summary' = m.summary
  /\ batchLog' = m.batchLog
  /\ workerLog' = m.workerLog
  /\ hweCalls' = m.hweCalls

Commit(m) == CommitMaster(m) /\ UNCHANGED <<arg, res>>

----------------------------------------------------------------------------
(* master.ts: helpers *)

thresholdBytes == (containerLimitMB * memoryThresholdPercent) \div 100

\* variant: the first sample of a worker is counted, not its latest
getTotalRSSFirstSample(m, masterRss) ==
  LET first == [w \in DOMAIN m.activeWorkers |->
                  LET s == m.activeWorkers[w].samples
                  IN IF Len(s) > 0 THEN s[1] ELSE 0]
  IN masterRss + SumOver(first, DOMAIN m.activeWorkers)

getTotalRSS(m, masterRss) ==
  LET last == [w \in DOMAIN m.activeWorkers |->
                 LET s == m.activeWorkers[w].samples
                 IN IF Len(s) > 0 THEN s[Len(s)] ELSE 0]
  IN masterRss + SumOver(last, DOMAIN m.activeWorkers)

\* variant: > in place of >= in the test of the worker cap
canSpawnWorkerOffByOne(m, masterRss) ==
  IF Cardinality(DOMAIN m.activeWorkers) > maxWorkers
  THEN FALSE
  ELSE getTotalRSS(m, masterRss) < thresholdBytes

canSpawnWorker(m, masterRss) ==
  IF Cardinality(DOMAIN m.activeWorkers) >= maxWorkers
  THEN FALSE
  ELSE getTotalRSS(m, masterRss) < thresholdBytes

\* variant: Math.floor in place of Math.ceil for the batch size
createBatchesFloor(files, idc) ==
  LET batchSize == Max(1, Len(files) \div initialBatchDivisor)
      count == CeilDiv(Len(files), batchSize)
  IN [k \in 1..count |->
        [id |-> idc + k - 1,
         files |-> Slice(files, (k - 1) * batchSize, k * batchSize),
         retries |-> 0]]

\* the batches made from files, the first of them with id idc
createBatches(files, idc) ==
  LET batchSize == Max(1, CeilDiv(Len(files), initialBatchDivisor))
      count == CeilDiv(Len(files), batchSize)
  IN [k \in 1..count |->
        [id |-> idc + k - 1,
         files |-> Slice(files, (k - 1) * batchSize, k * batchSize),
         retries |-> 0]]

\* variant: the children keep the retries of their parent
splitBatchKeepRetries(batch, idc) ==
  LET mid == CeilDiv(Len(batch.files), 2)
  IN << [id |-> idc,
         files |-> Slice(batch.files, 0, mid),
         retries |-> batch.retries],
        [id |-> idc + 1,
         files |-> Slice(batch.files, mid, Len(batch.files)),
         retries |-> batch.retries] >>

\* variant: Math.floor in place of Math.ceil
splitBatchFloor(batch, idc) ==
  LET mid == Len(batch.files) \div 2
  IN << [id |-> idc,
         files |-> Slice(batch.files, 0, mid),
         retries |-> batch.retries + 1],
        [id |-> idc + 1,
         files |-> Slice(batch.files, mid, Len(batch.files)),
         retries |-> batch.retries + 1] >>

\* variant: the counter is read once for both children
splitBatchSameId(batch, idc) ==
  LET mid == CeilDiv(Len(batch.files), 2)
  IN << [id |-> idc,
         files |-> Slice(batch.files, 0, mid),
         retries |-> batch.retries + 1],
        [id |-> idc,
         files |-> Slice(batch.files, mid, Len(batch.files)),
         retries |-> batch.retries + 1] >>

splitBatch(batch, idc) ==
  LET mid == CeilDiv(Len(batch.files), 2)
  IN << [id |-> idc,
         files |-> Slice(batch.files, 0, mid),
         retries |-> batch.retries + 1],
        [id |-> idc + 1,
         files |-> Slice(batch.files, mid, Len(batch.files)),
         retries |-> batch.retries + 1] >>

----------------------------------------------------------------------------
(* master.ts: worker management *)

\* the listeners of a forked child close over its batch; phase is what the
\* child has done so far, as far as the master has seen
spawnWorker(m, batch) ==
  LET workerId == m.workerIdCounter
      workerState == [id |-> workerId, batch |-> batch, samples |-> <<>>]
  IN [m EXCEPT !.workerIdCounter = @ + 1,
               !.activeWorkers = MapSet(@, workerId, workerState),
               !.child = MapSet(@, workerId,
                                [phase |-> "spawned", batch |-> batch]),
               !.workerLog = Append(@, workerId),
               !.hweCalls = MapSet(@, workerId, 0)]

FailAll(batch, errorType) ==
  [i \in 1..Len(batch.files) |->
     [file |-> batch.files[i], reason |-> errorType]]

\* variant: an oom batch is split whatever its retries
handleWorkerErrorNoBound(m, batch, errorType, file) ==
  IF errorType = "oom" /\ Len(batch.files) > 1
  THEN LET newBatches == splitBatch(batch, m.batchIdCounter)
       IN [m EXCEPT !.batchIdCounter = @ + 2,
                    !.pendingBatches = @ \o newBatches,
                    !.batchLog = @ \o <<newBatches[1].id, newBatches[2].id>>]
  ELSE IF errorType = "parse_error" /\ file # NoFile
  THEN [m EXCEPT !.failedFiles =
          Append(@, [file |-> file, reason |-> errorType])]
  ELSE [m EXCEPT !.failedFiles = @ \o FailAll(batch, errorType)]

\* variant: the children of a bisected batch go to the head of the queue
handleWorkerErrorUnshift(m, batch, errorType, file) ==
  IF errorType = "oom" /\ batch.retries < maxRetries /\ Len(batch.files) > 1
  THEN LET newBatches == splitBatch(batch, m.batchIdCounter)
       IN [m EXCEPT !.batchIdCounter = @ + 2,
                    !.pendingBatches = newBatches \o @,
                    !.batchLog = @ \o <<newBatches[1].id, newBatches[2].id>>]
  ELSE IF errorType = "parse_error" /\ file # NoFile
  THEN [m EXCEPT !.failedFiles =
          Append(@, [file |-> file, reason |-> errorType])]
  ELSE [m EXCEPT !.failedFiles = @ \o FailAll(batch, errorType)]

\* variant: a batch that cannot be bisected fails its first file only
handleWorkerErrorFirstOnly(m, batch, errorType, file) ==
  IF errorType = "oom" /\ batch.retries < maxRetries /\ Len(batch.files) > 1
  THEN LET newBatches == splitBatch(batch, m.batchIdCounter)
       IN [m EXCEPT !.batchIdCounter = @ + 2,
                    !.pendingBatches = @ \o newBatches,
                    !.batchLog = @ \o <<newBatches[1].id, newBatches[2].id>>]
  ELSE IF errorType = "parse_error" /\ file # NoFile
  THEN [m EXCEPT !.failedFiles =
          Append(@, [file |-> file, reason |-> errorType])]
  ELSE [m EXCEPT !.failedFiles =
          Append(@, [file |-> batch.files[1], reason |-> errorType])]

\* variant: the file named by a parse error is ignored
handleWorkerErrorNoFile(m, batch, errorType, file) ==
  IF errorType = "oom" /\ batch.retries < maxRetries /\ Len(batch.files) > 1
  THEN LET newBatches == splitBatch(batch, m.batchIdCounter)
       IN [m EXCEPT !.batchIdCounter = @ + 2,
                    !.pendingBatches = @ \o newBatches,
                    !.batchLog = @ \o <<newBatches[1].id, newBatches[2].id>>]
  ELSE [m EXCEPT !.failedFiles = @ \o FailAll(batch, errorType)]

\* variant: every kind of error is retried by bisection
handleWorkerErrorAnyKind(m, batch, errorType, file) ==
  IF batch.retries < maxRetries /\ Len(batch.files) > 1
  THEN LET newBatches == splitBatch(batch, m.batchIdCounter)
       IN [m EXCEPT !.batchIdCounter = @ + 2,
                    !.pendingBatches = @ \o newBatches,
                    !.batchLog = @ \o <<newBatches[1].id, newBatches[2].id>>]
  ELSE IF errorType = "parse_error" /\ file # NoFile
  THEN [m EXCEPT !.failedFiles =
          Append(@, [file |-> file, reason |-> errorType])]
  ELSE [m EXCEPT !.failedFiles = @ \o FailAll(batch, errorType)]

\* variant: the retry bound is one too low
handleWorkerErrorOneRetry(m, batch, errorType, file) ==
  IF errorType = "oom" /\ batch.retries < maxRetries - 1
     /\ Len(batch.files) > 1
  THEN LET newBatches == splitBatch(batch, m.batchIdCounter)
       IN [m EXCEPT !.batchIdCounter = @ + 2,
                    !.pendingBatches = @ \o newBatches,
                    !.batchLog = @ \o <<newBatches[1].id, newBatches[2].id>>]
  ELSE IF errorType = "parse_error" /\ file # NoFile
  THEN [m EXCEPT !.failedFiles =
          Append(@, [file |-> file, reason |-> errorType])]
  ELSE [m EXCEPT !.failedFiles = @ \o FailAll(batch, errorType)]

\* a FailedFile is modelled by its file and reason; its message is only text
handleWorkerError(m, batch, errorType, file) ==
  IF errorType = "oom" /\ batch.retries < maxRetries /\ Len(batch.files) > 1
  THEN LET newBatches == splitBatch(batch, m.batchIdCounter)
       IN [m EXCEPT !.batchIdCounter = @ + 2,
                    !.pendingBatches = @ \o newBatches,
                    !.batchLog = @ \o <<newBatches[1].id, newBatches[2].id>>]
  ELSE IF errorType = "parse_error" /\ file # NoFile
  THEN [m EXCEPT !.failedFiles =
          Append(@, [file |-> file, reason |-> errorType])]
  ELSE [m EXCEPT !.failedFiles = @ \o FailAll(batch, errorType)]

\* history only: one more call of handleWorkerError on behalf of worker w
NoteCall(m, w) == [m EXCEPT !.hweCalls[w] = @ + 1]

\* variant: the exit status does not look at the failures
finalizeExitZero(m) ==
  [m EXCEPT !.summary = << [totalFiles |-> 0, processedFiles |-> 0,
                            failedFiles |-> Len(m.failedFiles),
                            workers |-> m.workerStats,
                            failures |-> m.failedFiles] >>,
            !.exitCode = 0,
            !.pc = "exited"]

finalize(m) ==
  LET processedFiles ==
        SumOver([w \in DOMAIN m.completedResults |->
                   Len(m.completedResults[w])], DOMAIN m.completedResults)
      allFiles ==
        SumOver([i \in 1..Len(m.workerStats) |-> m.workerStats[i].files],
                1..Len(m.workerStats)) + Len(m.failedFiles)
  IN [m EXCEPT !.summary = << [totalFiles |-> allFiles,
                               processedFiles |-> processedFiles,
                               failedFiles |-> Len(m.failedFiles),
                               workers |-> m.workerStats,
                               failures |-> m.failedFiles] >>,
               !.exitCode = IF Len(m.failedFiles) > 0 THEN 1 ELSE 0,
               !.pc = "exited"]

\* variant: the batch queued last is spawned first
RECURSIVE spawnLoopNewestFirst(_, _, _)
spawnLoopNewestFirst(m, rd, i) ==
  IF Len(m.pendingBatches) > 0 /\ canSpawnWorker(m, rd[i])
  THEN LET n == Len(m.pendingBatches)
       IN spawnLoopNewestFirst(
            spawnWorker([m EXCEPT !.pendingBatches = SubSeq(@, 1, n - 1)],
                        m.pendingBatches[n]), rd, i + 1)
  ELSE m

\* variant: the head of the queue is spawned but left in the queue
RECURSIVE spawnLoopNoShift(_, _, _)
spawnLoopNoShift(m, rd, i) ==
  IF Len(m.pendingBatches) > 0 /\ canSpawnWorker(m, rd[i])
  THEN spawnLoopNoShift(spawnWorker(m, Head(m.pendingBatches)), rd, i + 1)
  ELSE m

\* rd[i] is the master's own RSS as read by the i-th call of canSpawnWorker
RECURSIVE spawnLoop(_, _, _)
spawnLoop(m, rd, i) ==
  IF Len(m.pendingBatches) > 0 /\ canSpawnWorker(m, rd[i])
  THEN spawnLoop(spawnWorker([m EXCEPT !.pendingBatches = Tail(@)],
                             Head(m.pendingBatches)), rd, i + 1)
  ELSE m

\* variant: finalize as soon as the queue is empty
processNextBatchEarly(m, rd) ==
  LET m1 == spawnLoop(m, rd, 1)
  IN IF Len(m1.pendingBatches) = 0
     THEN finalize(m1)
     ELSE m1

processNextBatch(m, rd) ==
  LET m1 == spawnLoop(m, rd, 1)
  IN IF Len(m1.pendingBatches) = 0
        /\ Cardinality(DOMAIN m1.activeWorkers) = 0
     THEN finalize(m1)
     ELSE m1

\* the loop calls canSpawnWorker at most maxWorkers + 1 times and stops at the
\* first reading at or over the threshold, so the readings after it are moot
Readings ==
  {rd \in [1..(maxWorkers + 1) -> MasterRssValues] :
     \A i \in 1..maxWorkers : rd[i] >= thresholdBytes => rd[i + 1] = rd[i]}

----------------------------------------------------------------------------
(* master.ts: the handlers *)

\* variant: the sample is stored for every active worker
onMemoryAll(m, w, rss) ==
  [m EXCEPT !.activeWorkers =
     [v \in DOMAIN m.activeWorkers |->
        [m.activeWorkers[v] EXCEPT !.samples = Append(@, rss)]]]

\* child.on("message"), msg.type === "memory"
onMemory(m, w, rss) ==
  [m EXCEPT !.activeWorkers[w].samples = Append(@, rss)]

\* variant: the statistics entry carries its index in place of the worker id
onResultIndexId(m, w, results) ==
  [m EXCEPT !.completedResults = MapSet(@, w, results),
            !.workerStats = Append(@, [id |-> Len(m.workerStats),
                                       files |-> Len(m.child[w].batch.files)])]

\* variant: every result is stored under the same key
onResultSameKey(m, w, results) ==
  [m EXCEPT !.completedResults = MapSet(@, 0, results),
            !.workerStats = Append(@, [id |-> w,
                                       files |-> Len(m.child[w].batch.files)])]

\* child.on("message"), msg.type === "result"
onResult(m, w, results) ==
  [m EXCEPT !.completedResults = MapSet(@, w, results),
            !.workerStats = Append(@, [id |-> w,
                                       files |-> Len(m.child[w].batch.files)])]

\* child.on("message"), msg.type === "error"
onErrorMessage(m, w, errorType, file) ==
  NoteCall(handleWorkerError(m, m.child[w].batch, errorType, file), w)

\* child.on("message"): the three branches, and no branch for another type
onMessage(m, w, msg) ==
  IF msg.type = "memory" THEN onMemory(m, w, msg.rss)
  ELSE IF msg.type = "result" THEN onResult(m, w, msg.results)
  ELSE IF msg.type = "error"
  THEN onErrorMessage(m, w, msg.errorType, msg.file)
  ELSE m

\* variant: only the signal tells a memory kill, exit code 137 does not
onExitSignalOnly(m, w, code, signal, rd) ==
  LET batch == m.child[w].batch
      m1 == [m EXCEPT !.activeWorkers = MapDelete(@, w)]
      m2 == IF signal = "SIGKILL"
            THEN NoteCall(handleWorkerError(m1, batch, "oom", NoFile), w)
            ELSE IF code # 0 /\ w \notin DOMAIN m1.completedResults
            THEN NoteCall(handleWorkerError(m1, batch, "unknown", NoFile), w)
            ELSE m1
  IN processNextBatch(m2, rd)

\* variant: every exit that is no memory kill is an unknown failure
onExitAlwaysFails(m, w, code, signal, rd) ==
  LET batch == m.child[w].batch
      m1 == [m EXCEPT !.activeWorkers = MapDelete(@, w)]
      m2 == IF signal = "SIGKILL" \/ code = 137
            THEN NoteCall(handleWorkerError(m1, batch, "oom", NoFile), w)
            ELSE NoteCall(handleWorkerError(m1, batch, "unknown", NoFile), w)
  IN processNextBatch(m2, rd)

\* variant: the results of the worker are deleted along with the worker
onExitDropsResults(m, w, code, signal, rd) ==
  LET batch == m.child[w].batch
      m1 == [m EXCEPT !.activeWorkers = MapDelete(@, w),
                      !.completedResults = MapDelete(@, w)]
      m2 == IF signal = "SIGKILL" \/ code = 137
            THEN NoteCall(handleWorkerError(m1, batch, "oom", NoFile), w)
            ELSE IF code # 0 /\ w \notin DOMAIN m1.completedResults
            THEN NoteCall(handleWorkerError(m1, batch, "unknown", NoFile), w)
            ELSE m1
  IN processNextBatch(m2, rd)

\* variant: the worker is left in activeWorkers
onExitKeepActive(m, w, code, signal, rd) ==
  LET batch == m.child[w].batch
      m2 == IF signal = "SIGKILL" \/ code = 137
            THEN NoteCall(handleWorkerError(m, batch, "oom", NoFile), w)
            ELSE IF code # 0 /\ w \notin DOMAIN m.completedResults
            THEN NoteCall(handleWorkerError(m, batch, "unknown", NoFile), w)
            ELSE m
  IN processNextBatch(m2, rd)

\* child.on("exit")
onExit(m, w, code, signal, rd) ==
  LET batch == m.child[w].batch
      m1 == [m EXCEPT !.activeWorkers = MapDelete(@, w)]
      m2 == IF signal = "SIGKILL" \/ code = 137
            THEN NoteCall(handleWorkerError(m1, batch, "oom", NoFile), w)
            ELSE IF code # 0 /\ w \notin DOMAIN m1.completedResults
            THEN NoteCall(handleWorkerError(m1, batch, "unknown", NoFile), w)
            ELSE m1
  IN processNextBatch(m2, rd)

\* child.on("error")
onChildError(m, w, rd) ==
  LET batch == m.child[w].batch
      m1 == [m EXCEPT !.activeWorkers = MapDelete(@, w)]
      m2 == NoteCall(handleWorkerError(m1, batch, "unknown", NoFile), w)
  IN processNextBatch(m2, rd)

\* main(): glob, createBatches, processNextBatch
main(m, files, rd) ==
  IF Len(files) = 0
  THEN [m EXCEPT !.pc = "exited", !.exitCode = 0]
  ELSE LET batches == createBatches(files, m.batchIdCounter)
           m1 == [m EXCEPT !.batchIdCounter = @ + Len(batches),
                           !.pendingBatches = @ \o batches,
                           !.batchLog = @ \o [k \in 1..Len(batches) |->
                                                batches[k].id],
                           !.pc = "running"]
       IN processNextBatch(m1, rd)

----------------------------------------------------------------------------
(* worker.ts, as seen by the master *)

\* a worker that received its task lints until it reports or dies
Busy(w) == w \in DOMAIN child /\ child[w].phase \in {"spawned", "linting"}

SetPhase(m, w, ph) == [m EXCEPT !.child[w].phase = ph]

\* the file named by an error message of the parser: none, a file of the
\* batch, or a string that is no input path (the regexp /in\s+([^\s:]+)/
\* keeps the full stop that follows the path in "... in <path>. Expected")
ErrorFiles(batch) ==
  {NoFile} \cup Range(batch.files) \cup {0 - f : f \in Range(batch.files)}

\* exits a child can take, as <<code, signal>>.  The normal end of a phase:
\* process.exit(0) after a result or a caught error, process.exit(1) of the
\* uncaughtException handler, and the end of a process that never got a task
CleanExits(phase) ==
  CASE phase = "reported" -> {<<0, NoSignal>>}
    [] phase = "crashed" -> {<<1, NoSignal>>}
    [] phase = "errored" -> {<<0, NoSignal>>}
    [] OTHER -> {}

\* a linting worker killed for memory: by the kernel, or exit code 137
\* (process.exit(137) of executeFailure, or a shell reporting the kill)
OomExits(phase) ==
  IF phase \in {"spawned", "linting"}
  THEN {<<137, NoSignal>>, <<Null, "SIGKILL">>}
  ELSE {}

\* every other end: process.exit(1) of the rejected runLint promise or a
\* crash at startup, another signal, a kill after the terminal message
AbnormalExits(phase) ==
  CASE phase \in {"spawned", "linting"} ->
         {<<1, NoSignal>>, <<Null, "SIGTERM">>}
    [] phase = "reported" -> {<<Null, "SIGKILL">>}
    [] phase = "crashed" -> {<<Null, "SIGKILL">>}
    [] phase = "errored" -> {<<1, NoSignal>>, <<Null, "SIGKILL">>}

----------------------------------------------------------------------------
(* Actions *)

\* the state of the master when its module has been loaded
Fresh ==
  /\ pc = "init"
  /\ inputFiles = <<>>
  /\ batchIdCounter = 0
  /\ workerIdCounter = 0
  /\ pendingBatches = <<>>
  /\ activeWorkers = EmptyMap
  /\ completedResults = EmptyMap
  /\ failedFiles = <<>>
  /\ workerStats = <<>>
  /\ child = EmptyMap
  /\ exitCode = NoExit
  /\ summary = <<>>
  /\ batchLog = <<>>
  /\ workerLog = <<>>
  /\ hweCalls = EmptyMap
  /\ faults = 0
  /\ ooms = 0
  /\ nsamples = 0

Init ==
  /\ Fresh
  /\ arg = <<>>
  /\ res = <<>>

Main ==
  /\ pc = "init"
  /\ \E n \in 0..MaxFiles, rd \in Readings :
       /\ inputFiles' = FileList(n)
       /\ Commit(main(Cur, FileList(n), rd))
  /\ UNCHANGED <<faults, ooms, nsamples>>

MemoryMessage ==
  /\ pc = "running"
  /\ \E w \in DOMAIN child, rss \in WorkerRssValues :
       /\ Busy(w)
       /\ Commit(SetPhase(onMemory(Cur, w, rss), w, "linting"))
  /\ nsamples < MaxSamples
  /\ nsamples' = nsamples + 1
  /\ UNCHANGED <<inputFiles, faults, ooms>>

ResultMessage ==
  /\ pc = "running"
  /\ \E w \in DOMAIN child :
       /\ Busy(w)
       /\ Commit(SetPhase(onResult(Cur, w, child[w].batch.files),
                          w, "reported"))
  /\ UNCHANGED <<inputFiles, faults, ooms, nsamples>>

\* the catch block of runLint: a classified error, then process.exit(0)
ErrorMessage ==
  /\ pc = "running"
  /\ ooms + faults < MaxAbnormal
  /\ \E w \in DOMAIN child :
       /\ Busy(w)
       /\ \/ \E file \in ErrorFiles(child[w].batch) :
               Commit(SetPhase(onErrorMessage(Cur, w, "parse_error", file),
                               w, "reported"))
          \/ Commit(SetPhase(onErrorMessage(Cur, w, "rule_crash", NoFile),
                          w, "reported"))
          \/ Commit(SetPhase(onErrorMessage(Cur, w, "unknown", NoFile),
                          w, "reported"))
  /\ faults' = faults + 1
  /\ UNCHANGED <<inputFiles, ooms, nsamples>>

\* the uncaughtException handler: error "unknown", then process.exit(1)
UncaughtMessage ==
  /\ pc = "running"
  /\ ooms + faults < MaxAbnormal
  /\ \E w \in DOMAIN child :
       /\ Busy(w)
       /\ Commit(SetPhase(onErrorMessage(Cur, w, "unknown", NoFile),
                          w, "crashed"))
  /\ faults' = faults + 1
  /\ UNCHANGED <<inputFiles, ooms, nsamples>>

ExitWith(w, ex, rd) ==
  Commit([onExit(Cur, w, ex[1], ex[2], rd) EXCEPT !.child = MapDelete(@, w)])

CleanExit ==
  /\ pc = "running"
  /\ \E w \in DOMAIN child, rd \in Readings :
       \E ex \in CleanExits(child[w].phase) : ExitWith(w, ex, rd)
  /\ UNCHANGED <<inputFiles, faults, ooms, nsamples>>

OomKill ==
  /\ pc = "running"
  /\ \E w \in DOMAIN child, rd \in Readings :
       \E ex \in OomExits(child[w].phase) : ExitWith(w, ex, rd)
  /\ ooms' = ooms + 1
  /\ UNCHANGED <<inputFiles, faults, nsamples>>

OomExit ==
  /\ ooms + faults < MaxAbnormal
  /\ OomKill

AbnormalExit ==
  /\ pc = "running"
  /\ ooms + faults < MaxAbnormal
  /\ \E w \in DOMAIN child, rd \in Readings :
       \E ex \in AbnormalExits(child[w].phase) : ExitWith(w, ex, rd)
  /\ faults' = faults + 1
  /\ UNCHANGED <<inputFiles, ooms, nsamples>>

\* 'error' of the ChildProcess: the fork failed (no process, no exit event)
\* or the task could not be sent (the process exists and exits later)
ChildError ==
  /\ pc = "running"
  /\ ooms + faults < MaxAbnormal
  /\ \E w \in DOMAIN child, rd \in Readings, forked \in BOOLEAN :
       /\ child[w].phase = "spawned"
       /\ LET m == onChildError(Cur, w, rd)
          IN Commit(IF forked THEN SetPhase(m, w, "errored")
                    ELSE [m EXCEPT !.child = MapDelete(@, w)])
  /\ faults' = faults + 1
  /\ UNCHANGED <<inputFiles, ooms, nsamples>>

Next ==
  \/ Main
  \/ MemoryMessage
  \/ ResultMessage
  \/ ErrorMessage
  \/ UncaughtMessage
  \/ CleanExit
  \/ OomExit
  \/ AbnormalExit
  \/ ChildError

Spec == Init /\ [][Next]_vars

(* Runs on a file list long enough that a batch can be bisected maxRetries
   times and still hold two files; the workers succeed or are killed *)
MainDeep ==
  /\ pc = "init"
  /\ \E rd \in Readings :
       /\ inputFiles' = FileList(DeepFiles)
       /\ Commit(main(Cur, FileList(DeepFiles), rd))
  /\ UNCHANGED <<faults, ooms, nsamples>>

OomExitDeep ==
  /\ ooms < DeepKills
  /\ OomKill

NextDeep ==
  \/ MainDeep
  \/ ResultMessage
  \/ CleanExit
  \/ OomExitDeep

DeepSpec == Init /\ [][NextDeep]_vars


(* splitBatch on its own: any batch, then the function applied to it *)
RECURSIVE SeqsUpTo(_, _)
SeqsUpTo(S, n) ==
  IF n = 0 THEN {<<>>}
  ELSE LET shorter == SeqsUpTo(S, n - 1)
       IN shorter \cup {Append(q, x) : q \in shorter, x \in S}

InitSplit ==
  /\ Fresh
  /\ \E files \in SeqsUpTo(1..MaxName, MaxLen) \ {<<>>},
        retries \in 0..maxRetries, idc \in 0..1 :
       arg = <<[id |-> 0, files |-> files, retries |-> retries], idc>>
  /\ res = <<>>

ApplySplit ==
  /\ res = <<>>
  /\ res' = splitBatch(arg[1], arg[2])
  /\ UNCHANGED <<pc, inputFiles, batchIdCounter, workerIdCounter,
                 pendingBatches, activeWorkers, completedResults, failedFiles,
                 workerStats, child, exitCode, summary, batchLog, workerLog,
                 hweCalls, faults, ooms, nsamples, arg>>

NextSplit == ApplySplit

SplitSpec == InitSplit /\ [][NextSplit]_vars


(* handleWorkerError on its own: a master with batches waiting and failures
   recorded, a batch, a kind of error and the file it may name *)
ErrorTypes == {"oom", "parse_error", "rule_crash", "unknown"}

\* a batch holds consecutive files of the list returned by glob()
BatchFiles == {[i \in 1..k |-> a + i - 1] : a \in 1..MaxName, k \in 1..MaxLen}

FreshMaster ==
  [pc |-> "running", batchIdCounter |-> 0, workerIdCounter |-> 0,
   pendingBatches |-> <<>>, activeWorkers |-> EmptyMap,
   completedResults |-> EmptyMap, failedFiles |-> <<>>, workerStats |-> <<>>,
   child |-> EmptyMap, exitCode |-> NoExit, summary |-> <<>>,
   batchLog |-> <<>>, workerLog |-> <<>>, hweCalls |-> EmptyMap]

\* what is already queued and recorded when the error arrives
WaitingQueues ==
  LET b1 == [id |-> 1, files |-> <<11, 12>>, retries |-> 0]
      b2 == [id |-> 2, files |-> <<13>>, retries |-> 1]
  IN {<<>>, <<b1>>, <<b1, b2>>}

RecordedFailures == {<<>>, <<[file |-> 14, reason |-> "unknown"]>>}

MasterUnchanged ==
  UNCHANGED <<pc, inputFiles, batchIdCounter, workerIdCounter,
              pendingBatches, activeWorkers, completedResults, failedFiles,
              workerStats, child, exitCode, summary, batchLog, workerLog,
              hweCalls, faults, ooms, nsamples>>

InitRecovery ==
  /\ Fresh
  /\ \E files \in BatchFiles, retries \in 0..maxRetries,
        errorType \in ErrorTypes, queue \in WaitingQueues,
        failed \in RecordedFailures :
       LET batch == [id |-> 0, files |-> files, retries |-> retries]
       IN \E file \in ErrorFiles(batch) :
            arg = <<[FreshMaster EXCEPT !.batchIdCounter = 3,
                                        !.pendingBatches = queue,
                                        !.failedFiles = failed,
                                        !.batchLog = <<0, 1, 2>>],
                    batch, errorType, file>>
  /\ res = <<>>

ApplyRecovery ==
  /\ res = <<>>
  /\ res' = <<handleWorkerError(arg[1], arg[2], arg[3], arg[4])>>
  /\ arg' = arg
  /\ MasterUnchanged

NextRecovery == ApplyRecovery

RecoverySpec == InitRecovery /\ [][NextRecovery]_vars


(* One exit of a worker under observation: workers report, crash, fail to
   start or are killed until the exit listener of some child is observed;
   arg keeps the state before it, the worker, the code, the signal and the
   readings, res the state after it *)

\* the ends of a phase and the signals that can arrive from outside
AnyExits(phase) ==
  CleanExits(phase) \cup OomExits(phase) \cup AbnormalExits(phase)
    \cup {<<Null, "SIGTERM">>, <<Null, "SIGKILL">>}

ObservedExit ==
  /\ pc = "running"
  /\ \E w \in DOMAIN child, rd \in Readings :
       \E ex \in AnyExits(child[w].phase) :
         LET out == [onExit(Cur, w, ex[1], ex[2], rd)
                       EXCEPT !.child = MapDelete(@, w)]
         IN /\ CommitMaster(out)
            /\ arg' = <<Cur, w, ex[1], ex[2], rd>>
            /\ res' = <<out>>
  /\ UNCHANGED <<inputFiles, faults, ooms, nsamples>>

NextExit ==
  \/ res = <<>> /\ Main
  \/ res = <<>> /\ MemoryMessage
  \/ res = <<>> /\ ResultMessage
  \/ res = <<>> /\ UncaughtMessage
  \/ res = <<>> /\ CleanExit
  \/ res = <<>> /\ OomExit
  \/ res = <<>> /\ ChildError
  \/ res = <<>> /\ ObservedExit

ExitSpec == Init /\ [][NextExit]_vars


(* canSpawnWorker on its own: any set of active workers, each with any list
   of samples, and any reading of the master's own RSS *)
InitAdmit ==
  /\ Fresh
  /\ \E ids \in SUBSET (0..(AdmitWorkers - 1)),
        masterRss \in AdmitMasterRss :
       \E samples \in [ids -> SeqsUpTo(AdmitWorkerRss, AdmitSamples)] :
         arg = <<[FreshMaster EXCEPT !.activeWorkers =
                    [w \in ids |->
                       [id |-> w,
                        batch |-> [id |-> w, files |-> <<w + 1>>,
                                   retries |-> 0],
                        samples |-> samples[w]]]],
                 masterRss>>
  /\ res = <<>>

ApplyAdmit ==
  /\ res = <<>>
  /\ res' = <<canSpawnWorker(arg[1], arg[2])>>
  /\ arg' = arg
  /\ MasterUnchanged

NextAdmit == ApplyAdmit

AdmitSpec == InitAdmit /\ [][NextAdmit]_vars


(* Scenario S6: the master with CONFIG edited to maxWorkers 4,
   memoryThresholdPercent 10 and containerLimitMB 1024, workers whose RSS is
   200 MiB or more.  The threshold, 102.4 MiB, is no whole number of MiB, so
   the comparison is made on hundredths *)
S6MaxWorkers == 4
S6MemoryThresholdPercent == 10
S6ContainerLimitMB == 1024

S6Files == 5           \* input files of the scenario
S6Kills == 1           \* workers killed for memory in the scenario
S6Samples == 1         \* memory messages in the scenario

\* the master below and over the threshold; a worker at the least RSS the
\* scenario allows, where the gate is nearest to opening
S6MasterRss == {80, 150}
S6WorkerRss == {200}

\* variant: the samples of the workers are not counted
canSpawnWorkerS6MasterOnly(m, masterRss) ==
  IF Cardinality(DOMAIN m.activeWorkers) >= S6MaxWorkers
  THEN FALSE
  ELSE masterRss * 100 < S6ContainerLimitMB * S6MemoryThresholdPercent

canSpawnWorkerS6(m, masterRss) ==
  IF Cardinality(DOMAIN m.activeWorkers) >= S6MaxWorkers
  THEN FALSE
  ELSE getTotalRSS(m, masterRss) * 100
         < S6ContainerLimitMB * S6MemoryThresholdPercent

RECURSIVE spawnLoopS6(_, _, _)
spawnLoopS6(m, rd, i) ==
  IF Len(m.pendingBatches) > 0 /\ canSpawnWorkerS6(m, rd[i])
  THEN spawnLoopS6(spawnWorker([m EXCEPT !.pendingBatches = Tail(@)],
                               Head(m.pendingBatches)), rd, i + 1)
  ELSE m

processNextBatchS6(m, rd) ==
  LET m1 == spawnLoopS6(m, rd, 1)
  IN IF Len(m1.pendingBatches) = 0
        /\ Cardinality(DOMAIN m1.activeWorkers) = 0
     THEN finalize(m1)
     ELSE m1

\* the readings of the master's own RSS that one run of the loop on m can
\* consult: one per batch it could spawn, up to the first reading at or
\* over the threshold; the entries it cannot consult are fixed
ReadingsS6(m) ==
  LET slots == Min(Len(m.pendingBatches),
                   S6MaxWorkers - Cardinality(DOMAIN m.activeWorkers))
      over(r) == r * 100 >= S6ContainerLimitMB * S6MemoryThresholdPercent
      low == CHOOSE r \in S6MasterRss : \A q \in S6MasterRss : r <= q
  IN {rd \in [1..(S6MaxWorkers + 1) -> S6MasterRss] :
        \A i \in 1..(S6MaxWorkers + 1) :
          (i > slots \/ \E j \in 1..(i - 1) : over(rd[j])) => rd[i] = low}

\* child.on("exit") up to the call of processNextBatch
exitRecovery(m, w, code, signal) ==
  LET batch == m.child[w].batch
      m1 == [m EXCEPT !.activeWorkers = MapDelete(@, w)]
  IN IF signal = "SIGKILL" \/ code = 137
     THEN NoteCall(handleWorkerError(m1, batch, "oom", NoFile), w)
     ELSE IF code # 0 /\ w \notin DOMAIN m1.completedResults
     THEN NoteCall(handleWorkerError(m1, batch, "unknown", NoFile), w)
     ELSE m1

onExitS6(m, w, code, signal, rd) ==
  processNextBatchS6(exitRecovery(m, w, code, signal), rd)

\* main() up to the call of processNextBatch
mainBatches(m, files) ==
  LET batches == createBatches(files, m.batchIdCounter)
  IN [m EXCEPT !.batchIdCounter = @ + Len(batches),
               !.pendingBatches = @ \o batches,
               !.batchLog = @ \o [k \in 1..Len(batches) |-> batches[k].id],
               !.pc = "running"]

mainS6(m, files, rd) ==
  IF Len(files) = 0
  THEN [m EXCEPT !.pc = "exited", !.exitCode = 0]
  ELSE processNextBatchS6(mainBatches(m, files), rd)

MainS6 ==
  /\ pc = "init"
  /\ \E n \in 1..S6Files :
       \E rd \in ReadingsS6(mainBatches(Cur, FileList(n))) :
         /\ inputFiles' = FileList(n)
         /\ Commit(mainS6(Cur, FileList(n), rd))
  /\ UNCHANGED <<faults, ooms, nsamples>>

MemoryMessageS6 ==
  /\ pc = "running"
  /\ \E w \in DOMAIN child, rss \in S6WorkerRss :
       /\ Busy(w)
       /\ Commit(SetPhase(onMemory(Cur, w, rss), w, "linting"))
  /\ nsamples < S6Samples
  /\ nsamples' = nsamples + 1
  /\ UNCHANGED <<inputFiles, faults, ooms>>

ExitWithS6(w, ex) ==
  \E rd \in ReadingsS6(exitRecovery(Cur, w, ex[1], ex[2])) :
    Commit([onExitS6(Cur, w, ex[1], ex[2], rd)
              EXCEPT !.child = MapDelete(@, w)])

CleanExitS6 ==
  /\ pc = "running"
  /\ \E w \in DOMAIN child :
       \E ex \in CleanExits(child[w].phase) : ExitWithS6(w, ex)
  /\ UNCHANGED <<inputFiles, faults, ooms, nsamples>>

OomExitS6 ==
  /\ pc = "running"
  /\ ooms < S6Kills
  /\ \E w \in DOMAIN child :
       \E ex \in OomExits(child[w].phase) : ExitWithS6(w, ex)
  /\ ooms' = ooms + 1
  /\ UNCHANGED <<inputFiles, faults, nsamples>>

NextS6 ==
  \/ MainS6
  \/ MemoryMessageS6
  \/ ResultMessage
  \/ CleanExitS6
  \/ OomExitS6

S6Spec == Init /\ [][NextS6]_vars


(* worker.ts on its own: one worker process and the task it is sent.  arg is
   the state of the process, res the types of the messages it has sent, in
   order.  The code between two awaits runs without interruption, so the
   interval timer and the uncaughtException handler fire only while the
   process is idle or awaits lintFiles *)
WorkerFiles == 2       \* files of the task
WorkerTicks == 2       \* firings of the sampling interval

\* failureType of shouldSimulateFailure for a file, "none" if shouldFail is
\* false
FailureTypes == {"none", "oom", "parse-error", "rule-crash", "slow"}

FailurePlans ==
  UNION {[1..n -> FailureTypes] : n \in 1..WorkerFiles}

InitWorker ==
  /\ Fresh
  /\ \E plan \in FailurePlans :
       arg = [wpc |-> "idle", plan |-> plan, i |-> 1, timer |-> FALSE,
              ticks |-> 0, code |-> NoExit]
  /\ res = <<>>

WorkerStep(next, sent) ==
  /\ arg' = next
  /\ res' = res \o sent
  /\ MasterUnchanged

Exited(w, code) == [w EXCEPT !.wpc = "exited", !.timer = FALSE, !.code = code]

\* process.on("message"): runLint up to the loop over the files
WorkerTask ==
  /\ arg.wpc = "idle"
  /\ WorkerStep([arg EXCEPT !.wpc = "prelint", !.timer = TRUE], <<>>)

\* runLint: one file of the test hook
PreLint ==
  /\ arg.wpc = "prelint"
  /\ arg.i <= Len(arg.plan)
  /\ LET failureType == arg.plan[arg.i]
     IN CASE failureType = "none" ->
               WorkerStep([arg EXCEPT !.i = @ + 1], <<>>)
          [] failureType = "oom" ->
               WorkerStep(Exited(arg, 137), <<>>)
          [] failureType \in {"parse-error", "rule-crash"} ->
               WorkerStep(Exited(arg, 0), <<"error">>)
          [] failureType = "slow" ->
               WorkerStep([arg EXCEPT !.i = @ + 1, !.timer = FALSE], <<>>)

\* runLint: new ESLint, which may throw, then sampleMemory and lintFiles
StartEslint ==
  /\ arg.wpc = "prelint"
  /\ arg.i > Len(arg.plan)
  /\ \/ WorkerStep([arg EXCEPT !.wpc = "awaiting"], <<"memory">>)
     \/ WorkerStep(Exited(arg, 0), <<"error">>)

\* the interval set by runLint fires
SampleTick ==
  /\ arg.wpc = "awaiting"
  /\ arg.timer
  /\ arg.ticks < WorkerTicks
  /\ WorkerStep([arg EXCEPT !.ticks = @ + 1], <<"memory">>)

\* variant: the last sample is taken after the result is sent
LintDoneSampleLast ==
  /\ arg.wpc = "awaiting"
  /\ \/ WorkerStep(Exited(arg, 0), <<"result", "memory">>)
     \/ WorkerStep(Exited(arg, 0), <<"memory", "error">>)

\* lintFiles resolves: sampleMemory, clearInterval, the result; a result
\* that cannot be sent throws into the catch block
LintDone ==
  /\ arg.wpc = "awaiting"
  /\ \/ WorkerStep(Exited(arg, 0), <<"memory", "result">>)
     \/ WorkerStep(Exited(arg, 0), <<"memory", "error">>)

\* lintFiles rejects: the catch block sends the error, or throws itself and
\* the rejected promise of runLint ends the process with status 1
LintFailed ==
  /\ arg.wpc = "awaiting"
  /\ \/ WorkerStep(Exited(arg, 0), <<"error">>)
     \/ WorkerStep(Exited(arg, 1), <<>>)

\* variant: the handler reports the error and lets the process go on
UncaughtExceptionNoExit ==
  /\ arg.wpc \in {"idle", "awaiting"}
  /\ WorkerStep(arg, <<"error">>)

\* process.on("uncaughtException"): the error, then process.exit(1)
UncaughtException ==
  /\ arg.wpc \in {"idle", "awaiting"}
  /\ WorkerStep(Exited(arg, 1), <<"error">>)

\* the process is killed from outside
WorkerKilled ==
  /\ arg.wpc # "exited"
  /\ WorkerStep(Exited(arg, Null), <<>>)

NextWorker ==
  \/ WorkerTask
  \/ PreLint
  \/ StartEslint
  \/ SampleTick
  \/ LintDone
  \/ LintFailed
  \/ UncaughtException
  \/ WorkerKilled

WorkerSpec == InitWorker /\ [][NextWorker]_vars


(* One message of a worker under observation: workers report and exit until
   the message listener of some child is observed; arg keeps the state
   before it, the worker and the message, res the state after it *)
Message(type, rss, results, errorType, file) ==
  [type |-> type, rss |-> rss, results |-> results, errorType |-> errorType,
   file |-> file]

\* what can arrive on the channel of a child: the three kinds worker.ts
\* sends and a record with another type
Messages(batch) ==
  {Message("memory", rss, <<>>, "", NoFile) : rss \in WorkerRssValues}
    \cup {Message("result", 0, batch.files, "", NoFile)}
    \cup {Message("error", 0, <<>>, t, f) :
            t \in {"parse_error", "rule_crash", "unknown"},
            f \in ErrorFiles(batch)}
    \cup {Message(t, 0, <<>>, "", NoFile) : t \in {"lint", "log"}}

ObservedMessage ==
  /\ pc = "running"
  /\ \E w \in DOMAIN child :
       /\ Busy(w)
       /\ \E msg \in Messages(child[w].batch) :
            LET out == onMessage(Cur, w, msg)
            IN /\ CommitMaster(out)
               /\ arg' = <<Cur, w, msg>>
               /\ res' = <<out>>
  /\ UNCHANGED <<inputFiles, faults, ooms, nsamples>>

NextMessage ==
  \/ res = <<>> /\ Main
  \/ res = <<>> /\ ResultMessage
  \/ res = <<>> /\ CleanExit
  \/ res = <<>> /\ OomExit
  \/ res = <<>> /\ ObservedMessage

MessageSpec == Init /\ [][NextMessage]_vars


(* test-scenarios.ts and the test hook of runLint.  A file name is modelled
   by the set of the patterns it contains; an option that is not given is
   Absent; a process starts with an empty oomAttempts *)
Absent == "absent"

Scenarios ==
  {"none", "oom-single", "oom-persistent", "parse-error", "rule-crash",
   "random-oom", "slow-worker", "all", "bogus"}

\* String.prototype.includes: every string includes the empty string
Includes(file, pattern) == pattern = "" \/ pattern \in file

\* variant: case "none" falls through into case "oom-single"
shouldSimulateFailureFallThrough(file, config, attempts, random) ==
  LET targetPattern == IF config.targetFile = Absent THEN "orderService"
                       ELSE config.targetFile
      isTargetFile == Includes(file, targetPattern)
      maxFails == IF config.oomRetryCount = Null THEN 1
                  ELSE config.oomRetryCount
      no == [shouldFail |-> FALSE, failureType |-> Absent,
             attempts |-> attempts]
      fail(t) == [shouldFail |-> TRUE, failureType |-> t,
                  attempts |-> attempts]
  IN CASE config.scenario \in {"none", "oom-single"} ->
            IF ~isTargetFile THEN no
            ELSE IF attempts < maxFails
            THEN [shouldFail |-> TRUE, failureType |-> "oom",
                  attempts |-> attempts + 1]
            ELSE no
       [] config.scenario = "oom-persistent" ->
            IF isTargetFile THEN fail("oom") ELSE no
       [] config.scenario = "parse-error" ->
            IF isTargetFile THEN fail("parse-error") ELSE no
       [] config.scenario = "rule-crash" ->
            IF isTargetFile THEN fail("rule-crash") ELSE no
       [] config.scenario = "random-oom" ->
            IF random THEN fail("oom") ELSE no
       [] config.scenario = "slow-worker" ->
            IF isTargetFile THEN fail("slow") ELSE no
       [] config.scenario = "all" ->
            IF Includes(file, "orderService") THEN fail("oom")
            ELSE IF Includes(file, "userService") THEN fail("parse-error")
            ELSE IF Includes(file, "db") THEN fail("rule-crash")
            ELSE no
       [] OTHER -> no

\* attempts is oomAttempts.get(file) ?? 0, random is Math.random() < 0.3;
\* the result carries the new value of oomAttempts for the file
shouldSimulateFailure(file, config, attempts, random) ==
  LET targetPattern == IF config.targetFile = Absent THEN "orderService"
                       ELSE config.targetFile
      isTargetFile == Includes(file, targetPattern)
      maxFails == IF config.oomRetryCount = Null THEN 1
                  ELSE config.oomRetryCount
      no == [shouldFail |-> FALSE, failureType |-> Absent,
             attempts |-> attempts]
      fail(t) == [shouldFail |-> TRUE, failureType |-> t,
                  attempts |-> attempts]
  IN CASE config.scenario = "none" -> no
       [] config.scenario = "oom-single" ->
            IF ~isTargetFile THEN no
            ELSE IF attempts < maxFails
            THEN [shouldFail |-> TRUE, failureType |-> "oom",
                  attempts |-> attempts + 1]
            ELSE no
       [] config.scenario = "oom-persistent" ->
            IF isTargetFile THEN fail("oom") ELSE no
       [] config.scenario = "parse-error" ->
            IF isTargetFile THEN fail("parse-error") ELSE no
       [] config.scenario = "rule-crash" ->
            IF isTargetFile THEN fail("rule-crash") ELSE no
       [] config.scenario = "random-oom" ->
            IF random THEN fail("oom") ELSE no
       [] config.scenario = "slow-worker" ->
            IF isTargetFile THEN fail("slow") ELSE no
       [] config.scenario = "all" ->
            IF Includes(file, "orderService") THEN fail("oom")
            ELSE IF Includes(file, "userService") THEN fail("parse-error")
            ELSE IF Includes(file, "db") THEN fail("rule-crash")
            ELSE no
       [] OTHER -> no

\* runLint, the loop over task.files: what ends the loop ("oom" is
\* process.exit(137), "parse-error" and "rule-crash" are thrown) or "none"
\* when the loop runs to its end; calls counts the calls of executeFailure.
\* names[i] is the i-th file, random[i] its draw
RECURSIVE testHook(_, _, _, _, _)
testHook(names, i, config, random, calls) ==
  IF i > Len(names) THEN [end |-> "none", calls |-> calls]
  ELSE LET r == shouldSimulateFailure(names[i], config, 0, random[i])
       IN IF r.shouldFail /\ r.failureType # Absent
          THEN IF r.failureType \in {"oom", "parse-error", "rule-crash"}
               THEN [end |-> r.failureType, calls |-> calls + 1]
               ELSE testHook(names, i + 1, config, random, calls + 1)
          ELSE testHook(names, i + 1, config, random, calls)

\* spawnWorker: the arguments of fork, as <<option, value>> pairs
workerArgs(testConfig) ==
  <<(<<"--target", "targetPath">>)>>
    \o (IF testConfig.scenario # "none"
        THEN <<(<<"--test", testConfig.scenario>>)>>
               \o (IF testConfig.targetFile \notin {Absent, ""}
                   THEN <<(<<"--test-file", testConfig.targetFile>>)>>
                   ELSE <<>>)
        ELSE <<>>)

HookFiles == 2         \* files of a task

FileNames ==
  {{}, {"orderService"}, {"userService"}, {"db"}, {"foo"},
   {"orderService", "db"}}

TestConfigs ==
  [scenario : Scenarios, targetFile : {Absent, "", "foo", "db"},
   oomRetryCount : {Null, 0, 1, 2}]

InitHook ==
  /\ Fresh
  /\ \E n \in 1..HookFiles, config \in TestConfigs :
       \E names \in [1..n -> FileNames], random \in [1..n -> BOOLEAN] :
         arg = <<names, config, random>>
  /\ res = <<>>

\* a process of the master and one of its workers under the same testConfig
ApplyHook ==
  /\ res = <<>>
  /\ res' = <<[hook |-> testHook(arg[1], 1, arg[2], arg[3], 0),
               first |-> shouldSimulateFailure(arg[1][1], arg[2], 0,
                                               arg[3][1]),
               args |-> workerArgs(arg[2])]>>
  /\ arg' = arg
  /\ MasterUnchanged

NextHook == ApplyHook

HookSpec == InitHook /\ [][NextHook]_vars


(* createBatches on its own: a list of distinct files, then the function
   applied to it *)
PartitionFiles == 10   \* files of the list
PartitionOffset == 3   \* first file of the list
PartitionIds == 2      \* value of batchIdCounter at the call

InitPartition ==
  /\ Fresh
  /\ \E n \in 1..PartitionFiles, off \in 0..PartitionOffset,
        idc \in 0..PartitionIds :
       arg = <<[i \in 1..n |-> off + i], idc>>
  /\ res = <<>>

ApplyPartition ==
  /\ res = <<>>
  /\ res' = <<createBatches(arg[1], arg[2])>>
  /\ arg' = arg
  /\ MasterUnchanged

NextPartition == ApplyPartition

PartitionSpec == InitPartition /\ [][NextPartition]_vars

(* Runs in which every worker lints its batch and reports: a result with
   one record per file, then process.exit(0).  The master's own RSS stays
   under the threshold; with a reporting worker it may reach it *)
HappyFiles == 10       \* input files
HappyMasterRss == {200, 2972}
HappyReadings == [1..(maxWorkers + 1) -> HappyMasterRss]

MainHappy ==
  /\ pc = "init"
  /\ \E n \in 1..HappyFiles, rd \in HappyReadings :
       /\ inputFiles' = FileList(n)
       /\ Commit(main(Cur, FileList(n), rd))
  /\ UNCHANGED <<faults, ooms, nsamples>>

CleanExitHappy ==
  /\ pc = "running"
  /\ \E w \in DOMAIN child, rd \in HappyReadings :
       \E ex \in CleanExits(child[w].phase) : ExitWith(w, ex, rd)
  /\ UNCHANGED <<inputFiles, faults, ooms, nsamples>>

NextHappy ==
  \/ MainHappy
  \/ MemoryMessage
  \/ ResultMessage
  \/ CleanExitHappy

\* a started master runs main(), a worker that holds a task reports, and a
\* worker that reported exits
HappySpec == Init /\ [][NextHappy]_vars /\ WF_vars(NextHappy)

\* getTestConfig: the first --test= or --test-file= argument decides, then
\* TEST_SCENARIO; args are <<option, value>> pairs, env.oomRetryCount is
\* parseInt(TEST_OOM_RETRIES)
RECURSIVE getTestConfig(_, _)
getTestConfig(args, env) ==
  IF args # <<>>
  THEN IF Head(args)[1] = "--test"
       THEN [scenario |-> Head(args)[2], targetFile |-> Absent,
             oomRetryCount |-> Null]
       ELSE IF Head(args)[1] = "--test-file"
       THEN [scenario |-> "oom-single", targetFile |-> Head(args)[2],
             oomRetryCount |-> Null]
       ELSE getTestConfig(Tail(args), env)
  ELSE IF env.scenario \notin {Absent, ""}
  THEN [scenario |-> env.scenario, targetFile |-> env.targetFile,
        oomRetryCount |-> env.oomRetryCount]
  ELSE [scenario |-> "none", targetFile |-> Absent, oomRetryCount |-> Null]

(* Runs under failure injection: the master is started with arguments and
   an environment, its workers are forked with workerArgs and inherit the
   environment, and each worker runs the test hook on its batch in a new
   process.  One input file, arg.target, has a name that contains the
   patterns arg.name; the other names contain none of the patterns *)
ScenarioFiles == 13    \* input files

MasterArgs ==
  {<<>>, <<(<<"--test", "oom-single">>)>>,
   <<(<<"--test", "oom-persistent">>)>>, <<(<<"--test-file", "db">>)>>}

Environments ==
  {[scenario |-> Absent, targetFile |-> Absent, oomRetryCount |-> Null],
   [scenario |-> "oom-single", targetFile |-> Absent, oomRetryCount |-> 1],
   [scenario |-> "oom-single", targetFile |-> "db", oomRetryCount |-> 1],
   [scenario |-> "oom-persistent", targetFile |-> Absent,
    oomRetryCount |-> Null]}

TargetNames == {{"orderService"}, {"db"}}

masterConfig == getTestConfig(arg.args, arg.env)

\* the testConfig of a worker: its own arguments and environment
workerConfig ==
  getTestConfig(workerArgs(masterConfig), arg.env)

\* how the test hook of a new worker process ends on the files of a batch
WorkerEnd(files) ==
  testHook([i \in 1..Len(files) |->
              IF files[i] = arg.target THEN arg.name ELSE {"foo"}],
           1, workerConfig, [i \in 1..Len(files) |-> FALSE], 0).end

InitScenario ==
  /\ Fresh
  /\ \E args \in MasterArgs, env \in Environments,
        t \in 1..ScenarioFiles, name \in TargetNames :
       arg = [args |-> args, env |-> env, target |-> t, name |-> name]
  /\ res = <<>>

MainScenario ==
  /\ pc = "init"
  /\ \E n \in arg.target..ScenarioFiles, rd \in HappyReadings :
       /\ inputFiles' = FileList(n)
       /\ Commit(main(Cur, FileList(n), rd))
  /\ UNCHANGED <<faults, ooms, nsamples>>

\* the hook runs to its end and the batch is linted
ResultScenario ==
  /\ pc = "running"
  /\ \E w \in DOMAIN child :
       /\ Busy(w)
       /\ WorkerEnd(child[w].batch.files) = "none"
       /\ Commit(SetPhase(onResult(Cur, w, child[w].batch.files),
                          w, "reported"))
  /\ UNCHANGED <<inputFiles, faults, ooms, nsamples>>

\* executeFailure("oom"): process.exit(137) before any message
OomScenario ==
  /\ pc = "running"
  /\ \E w \in DOMAIN child, rd \in HappyReadings :
       /\ Busy(w)
       /\ WorkerEnd(child[w].batch.files) = "oom"
       /\ ExitWith(w, <<137, NoSignal>>, rd)
  /\ UNCHANGED <<inputFiles, faults, ooms, nsamples>>

NextScenario ==
  \/ MainScenario
  \/ ResultScenario
  \/ OomScenario
  \/ CleanExitHappy

ScenarioSpec == InitScenario /\ [][NextScenario]_vars

(* mem-profiler.ts: a MemProfiler as the record of its fields timer and
   timeline, with the interval timers of the event loop that are live (set
   by setInterval and not yet cleared); a timeline entry is modelled by its
   label.  arg is the profiler, with the calls made so far as history *)
ProfilerStarts == 2    \* calls of start
ProfilerStops == 3     \* calls of stop
ProfilerSamples == 3   \* entries of the timeline

NoTimer == 0

\* variant: the field is reset but the interval is not cleared
stopNoClear(p) == [p EXCEPT !.timer = NoTimer]

\* setInterval returns a new timer; the one held before is not cleared
start(p) ==
  [p EXCEPT !.timer = p.nextTimer,
            !.live = @ \cup {p.nextTimer},
            !.nextTimer = @ + 1]

stop(p) ==
  [p EXCEPT !.live = IF p.timer # NoTimer THEN @ \ {p.timer} ELSE @,
            !.timer = NoTimer]

sample(p, label) == [p EXCEPT !.timeline = Append(@, label)]

\* dump writes the timeline to the file
dump(p) == [p EXCEPT !.file = p.timeline]

InitProfiler ==
  /\ Fresh
  /\ arg = [timer |-> NoTimer, timeline |-> <<>>, live |-> {},
            nextTimer |-> 1, file |-> <<>>,
            starts |-> 0, stops |-> 0, stopsSince |-> 0]
  /\ res = <<>>

ProfilerStart ==
  /\ arg.starts < ProfilerStarts
  /\ arg' = [start(arg) EXCEPT !.starts = @ + 1, !.stopsSince = 0]
  /\ res' = res
  /\ MasterUnchanged

ProfilerStop ==
  /\ arg.stops < ProfilerStops
  /\ arg' = [stop(arg) EXCEPT !.stops = @ + 1, !.stopsSince = @ + 1]
  /\ res' = res
  /\ MasterUnchanged

\* the callback of a live interval timer
ProfilerTick ==
  /\ arg.live # {}
  /\ Len(arg.timeline) < ProfilerSamples
  /\ arg' = sample(arg, "interval")
  /\ res' = res
  /\ MasterUnchanged

\* a call of sample by the program
ProfilerSample ==
  /\ Len(arg.timeline) < ProfilerSamples
  /\ arg' = sample(arg, "manual")
  /\ res' = res
  /\ MasterUnchanged

ProfilerDump ==
  /\ arg' = dump(arg)
  /\ res' = res
  /\ MasterUnchanged

NextProfiler ==
  \/ ProfilerStart
  \/ ProfilerStop
  \/ ProfilerTick
  \/ ProfilerSample
  \/ ProfilerDump

ProfilerSpec == InitProfiler /\ [][NextProfiler]_vars

(* Runs in which workers sample their memory several times: samples of
   distinct workers interleave with each other and with results and exits *)
SampleFiles == 3       \* input files
SampleCount == 3       \* memory messages of a run

MainSample ==
  /\ pc = "init"
  /\ \E n \in 1..SampleFiles, rd \in Readings :
       /\ inputFiles' = FileList(n)
       /\ Commit(main(Cur, FileList(n), rd))
  /\ UNCHANGED <<faults, ooms, nsamples>>

MemoryMessageSample ==
  /\ pc = "running"
  /\ nsamples < SampleCount
  /\ \E w \in DOMAIN child, rss \in WorkerRssValues :
       /\ Busy(w)
       /\ Commit(SetPhase(onMessage(Cur, w, Message("memory", rss, <<>>,
                                                   "", NoFile)),
                          w, "linting"))
  /\ nsamples' = nsamples + 1
  /\ UNCHANGED <<inputFiles, faults, ooms>>

NextSample ==
  \/ MainSample
  \/ MemoryMessageSample
  \/ ResultMessage
  \/ CleanExit
  \/ OomExit

SampleSpec == Init /\ [][NextSample]_vars

(* Runs of DeepSpec with the ancestry of the batches as history: arg maps
   the id of every batch created so far to its parent, its initial batch
   (root) and its depth under it, res maps the id of every worker spawned so
   far to the id of its batch *)
TreeAfter(m, parent) ==
  [b \in 0..(m.batchIdCounter - 1) |->
     IF b \in DOMAIN arg THEN arg[b]
     ELSE [parent |-> parent, root |-> arg[parent].root,
           depth |-> arg[parent].depth + 1]]

SpawnsAfter(m) ==
  [w \in 0..(m.workerIdCounter - 1) |->
     IF w \in DOMAIN res THEN res[w] ELSE m.activeWorkers[w].batch.id]

MainTree ==
  /\ pc = "init"
  /\ \E rd \in Readings :
       LET m == main(Cur, FileList(DeepFiles), rd)
       IN /\ inputFiles' = FileList(DeepFiles)
          /\ CommitMaster(m)
          /\ arg' = [b \in 0..(m.batchIdCounter - 1) |->
                       [parent |-> b, root |-> b, depth |-> 0]]
          /\ res' = [w \in 0..(m.workerIdCounter - 1) |->
                       m.activeWorkers[w].batch.id]
  /\ UNCHANGED <<faults, ooms, nsamples>>

ExitTree(w, ex, rd) ==
  LET m == [onExit(Cur, w, ex[1], ex[2], rd) EXCEPT !.child = MapDelete(@, w)]
  IN /\ CommitMaster(m)
     /\ arg' = TreeAfter(m, child[w].batch.id)
     /\ res' = SpawnsAfter(m)

CleanExitTree ==
  /\ pc = "running"
  /\ \E w \in DOMAIN child, rd \in Readings :
       \E ex \in CleanExits(child[w].phase) : ExitTree(w, ex, rd)
  /\ UNCHANGED <<inputFiles, faults, ooms, nsamples>>

OomExitTree ==
  /\ pc = "running"
  /\ ooms < DeepKills
  /\ \E w \in DOMAIN child, rd \in Readings :
       \E ex \in OomExits(child[w].phase) : ExitTree(w, ex, rd)
  /\ ooms' = ooms + 1
  /\ UNCHANGED <<inputFiles, faults, nsamples>>

NextTree ==
  \/ MainTree
  \/ ResultMessage
  \/ CleanExitTree
  \/ OomExitTree

TreeSpec == Init /\ [][NextTree]_vars

(* worker.ts, the memory figures: a worker process that lints its task.
   arg holds wpc, the module variable peakRSS, the interval timer and the
   number of messages the master has received; res holds the messages sent,
   in order, a memory message with its rss and a result with its peakRSS *)
PeakTicks == 2         \* firings of the sampling interval
PeakRssValues == {100, 200, 300}

\* variant: peakRSS follows the last sample
sampleMemoryLast(w, sent, rss) ==
  [w |-> [w EXCEPT !.peakRSS = rss],
   sent |-> Append(sent, [type |-> "memory", rss |-> rss])]

\* sampleMemory with process.memoryUsage().rss = rss: the process and the
\* messages sent after the call
sampleMemory(w, sent, rss) ==
  [w |-> [w EXCEPT !.peakRSS = IF rss > w.peakRSS THEN rss ELSE @],
   sent |-> Append(sent, [type |-> "memory", rss |-> rss])]

InitPeak ==
  /\ Fresh
  /\ arg = [wpc |-> "idle", peakRSS |-> 0, timer |-> FALSE, ticks |-> 0,
            received |-> 0]
  /\ res = <<>>

\* runLint up to the await of lintFiles: setInterval, the test hook with no
\* failure, new ESLint, sampleMemory
PeakTask ==
  /\ arg.wpc = "idle"
  /\ \E rss \in PeakRssValues :
       LET s == sampleMemory([arg EXCEPT !.wpc = "awaiting", !.timer = TRUE],
                             res, rss)
       IN arg' = s.w /\ res' = s.sent
  /\ MasterUnchanged

\* runLint fails before its first sample: the catch block sends the error
PeakEarlyError ==
  /\ arg.wpc = "idle"
  /\ arg' = [arg EXCEPT !.wpc = "exited"]
  /\ res' = Append(res, [type |-> "error", rss |-> 0])
  /\ MasterUnchanged

PeakTick ==
  /\ arg.wpc = "awaiting"
  /\ arg.timer
  /\ arg.ticks < PeakTicks
  /\ \E rss \in PeakRssValues :
       LET s == sampleMemory([arg EXCEPT !.ticks = @ + 1], res, rss)
       IN arg' = s.w /\ res' = s.sent
  /\ MasterUnchanged

\* lintFiles resolves: sampleMemory, clearInterval, the result with peakRSS
PeakDone ==
  /\ arg.wpc = "awaiting"
  /\ \E rss \in PeakRssValues :
       LET s == sampleMemory([arg EXCEPT !.wpc = "exited", !.timer = FALSE],
                             res, rss)
       IN /\ arg' = s.w
          /\ res' = Append(s.sent, [type |-> "result", rss |-> s.w.peakRSS])
  /\ MasterUnchanged

\* lintFiles rejects: clearInterval, the error
PeakFailed ==
  /\ arg.wpc = "awaiting"
  /\ arg' = [arg EXCEPT !.wpc = "exited", !.timer = FALSE]
  /\ res' = Append(res, [type |-> "error", rss |-> 0])
  /\ MasterUnchanged

\* the master receives the next message of the channel
PeakReceive ==
  /\ arg.received < Len(res)
  /\ arg' = [arg EXCEPT !.received = @ + 1]
  /\ res' = res
  /\ MasterUnchanged

NextPeak ==
  \/ PeakTask
  \/ PeakEarlyError
  \/ PeakTick
  \/ PeakDone
  \/ PeakFailed
  \/ PeakReceive

PeakSpec == InitPeak /\ [][NextPeak]_vars

(* worker.ts, the catch block of runLint: an error message is modelled by
   the set of the patterns it contains and by the first match of
   /in\s+([^\s:]+)/ in it, NoFile if there is none *)
ClassifyFiles == 2     \* files a message can name

MessagePatterns ==
  {"Parsing error", "parserServices", "Rule ", "rule '",
   "heap out of memory"}

ErrorTexts ==
  [patterns : SUBSET MessagePatterns,
   match : {NoFile} \cup 1..ClassifyFiles
             \cup {0 - f : f \in 1..ClassifyFiles}]

\* variant: the rule patterns are tested first
classifyRuleFirst(errMsg) ==
  IF "Rule " \in errMsg.patterns \/ "rule '" \in errMsg.patterns
  THEN [errorType |-> "rule_crash", file |-> NoFile]
  ELSE IF "Parsing error" \in errMsg.patterns
          \/ "parserServices" \in errMsg.patterns
  THEN [errorType |-> "parse_error", file |-> errMsg.match]
  ELSE [errorType |-> "unknown", file |-> NoFile]

\* errorType and file of the error message sent for errMsg
classify(errMsg) ==
  IF "Parsing error" \in errMsg.patterns
     \/ "parserServices" \in errMsg.patterns
  THEN [errorType |-> "parse_error", file |-> errMsg.match]
  ELSE IF "Rule " \in errMsg.patterns \/ "rule '" \in errMsg.patterns
  THEN [errorType |-> "rule_crash", file |-> NoFile]
  ELSE [errorType |-> "unknown", file |-> NoFile]

InitClassify ==
  /\ Fresh
  /\ \E errMsg \in ErrorTexts : arg = errMsg
  /\ res = <<>>

\* the error is caught by runLint
ApplyClassify ==
  /\ res = <<>>
  /\ res' = <<classify(arg), "caught">>
  /\ arg' = arg
  /\ MasterUnchanged

\* the error reaches the uncaughtException handler
ApplyUncaught ==
  /\ res = <<>>
  /\ res' = <<[errorType |-> "unknown", file |-> NoFile], "uncaught">>
  /\ arg' = arg
  /\ MasterUnchanged

NextClassify ==
  \/ ApplyClassify
  \/ ApplyUncaught

ClassifySpec == InitClassify /\ [][NextClassify]_vars

(* getTestConfig on its own: the arguments and the environment of a
   process, then the function applied to them *)
ConfigArgs == 3        \* arguments of the process

ArgumentValues ==
  {<<"--target", "targetPath">>}
    \cup {<<"--test", s>> : s \in {"none", "oom-persistent", "parse-error"}}
    \cup {<<"--test-file", p>> : p \in {"db", "userService"}}

InitConfig ==
  /\ Fresh
  /\ \E args \in SeqsUpTo(ArgumentValues, ConfigArgs), env \in Environments :
       arg = <<args, env>>
  /\ res = <<>>

ApplyConfig ==
  /\ res = <<>>
  /\ res' = <<getTestConfig(arg[1], arg[2])>>
  /\ arg' = arg
  /\ MasterUnchanged

NextConfig == ApplyConfig

ConfigSpec == InitConfig /\ [][NextConfig]_vars

----------------------------------------------------------------------------
(* Properties *)

PendingFiles ==
  UNION {Range(pendingBatches[i].files) : i \in 1..Len(pendingBatches)}
ActiveFiles ==
  UNION {Range(activeWorkers[w].batch.files) : w \in DOMAIN activeWorkers}
CompletedFiles ==
  UNION {Range(completedResults[w]) : w \in DOMAIN completedResults}
FailedNames == {failedFiles[i].file : i \in 1..Len(failedFiles)}

Finalized == summary # <<>>

\* the number of result records for f over all worker-<id>-results.json
CompletedCount(f) ==
  SumOver([w \in DOMAIN completedResults |->
             Cardinality({i \in 1..Len(completedResults[w]) :
                            completedResults[w][i] = f})],
          DOMAIN completedResults)

\* the number of records for f in summary.failures
FailureCount(f) ==
  Cardinality({i \in 1..Len(summary[1].failures) :
                 summary[1].failures[i].file = f})

\* C1 Conservation: once the master has finalized, every input file is
\* exactly once in the results of the completed workers or in the failures
\* of the summary: not in both, not in neither, not twice.
Conservation ==
  Finalized =>
    \A f \in Range(inputFiles) : CompletedCount(f) + FailureCount(f) = 1

\* a worker has terminated when its listeners can fire no more
Terminated(w) == w \in Range(workerLog) /\ w \notin DOMAIN child

\* C2 A terminated worker's batch is resolved exactly once: either its
\* result is in completed or handleWorkerError ran for it, not both, and
\* handleWorkerError runs at most once per worker.
ResolvedOnce ==
  \A w \in Range(workerLog) :
    /\ hweCalls[w] <= 1
    /\ Terminated(w) =>
         (IF w \in DOMAIN completedResults THEN 1 ELSE 0) + hweCalls[w] = 1

\* C3 In every state the files of pending, active, completed and failed
\* together are exactly the input files.
FilesAccountedFor ==
  PendingFiles \cup ActiveFiles \cup CompletedFiles \cup FailedNames
    = Range(inputFiles)

\* C4 (as stated) No file is in two of pending, active, completed, failed.
NoFileInTwoSets ==
  /\ PendingFiles \cap ActiveFiles = {}
  /\ PendingFiles \cap CompletedFiles = {}
  /\ PendingFiles \cap FailedNames = {}
  /\ ActiveFiles \cap CompletedFiles = {}
  /\ ActiveFiles \cap FailedNames = {}
  /\ CompletedFiles \cap FailedNames = {}

\* C4 (amended) No file is at once in a pending batch and in the batch of an
\* active worker, and no file is in two pending batches or in the batches of
\* two active workers.
LiveBatchesDisjoint ==
  /\ PendingFiles \cap ActiveFiles = {}
  /\ \A i, j \in 1..Len(pendingBatches) :
       i # j => Range(pendingBatches[i].files)
                  \cap Range(pendingBatches[j].files) = {}
  /\ \A v, w \in DOMAIN activeWorkers :
       v # w => Range(activeWorkers[v].batch.files)
                  \cap Range(activeWorkers[w].batch.files) = {}

\* a worker has reported its result and is still active, while the children
\* of a bisected batch wait
WitnessLiveBatches ==
  /\ \E w \in DOMAIN activeWorkers : w \in DOMAIN completedResults
  /\ Len(pendingBatches) >= 2
  /\ ooms >= 1

\* C5 Admission safety: at most maxWorkers workers are active.
AdmissionSafety == Cardinality(DOMAIN activeWorkers) <= maxWorkers

\* all slots taken with batches waiting, after a slot was freed and refilled
WitnessAdmission ==
  /\ Cardinality(DOMAIN activeWorkers) = maxWorkers
  /\ Len(pendingBatches) > 0
  /\ workerIdCounter > maxWorkers

BatchOk(b) == Len(b.files) >= 1 /\ b.retries >= 0 /\ b.retries <= maxRetries

\* C6 Every batch, pending or assigned to a worker, has at least one file
\* and retries between 0 and maxRetries.
RetryBound ==
  /\ \A i \in 1..Len(pendingBatches) : BatchOk(pendingBatches[i])
  /\ \A w \in DOMAIN activeWorkers : BatchOk(activeWorkers[w].batch)
  /\ \A w \in DOMAIN child : BatchOk(child[w].batch)

\* two bisections, then a kill that bisects no more though the batch has two
\* files: that batch had retries = maxRetries
WitnessRetryBound ==
  /\ ooms = 3
  /\ Len(batchLog) = Len(createBatches(inputFiles, 0)) + 4
  /\ Len(failedFiles) = 2
  /\ \A i \in 1..Len(failedFiles) : failedFiles[i].reason = "oom"

\* C7 Bisection soundness: for a batch of n >= 2 files the children hold
\* the first ceil(n/2) files and the rest, in order; together they are the
\* parent's list, both are non-empty, both have the parent's retries + 1.
BisectionSound ==
  (res # <<>> /\ Len(arg[1].files) >= 2) =>
    LET b == arg[1]
        n == Len(b.files)
        half == n - (n \div 2)
        l == res[1]
        r == res[2]
    IN /\ Len(res) = 2
       /\ Len(l.files) = half
       /\ l.files \o r.files = b.files
       /\ Len(l.files) + Len(r.files) = n
       /\ l.files # <<>> /\ r.files # <<>>
       /\ l.retries = b.retries + 1 /\ r.retries = b.retries + 1

\* a batch of odd length has been bisected
WitnessBisection ==
  /\ res # <<>>
  /\ Len(arg[1].files) = 3
  /\ arg[1].retries = 1

Increasing(q) == \A i, j \in 1..Len(q) : i < j => q[i] < q[j]

\* C8 Monotonic ids: batch ids and worker ids are strictly increasing in
\* order of creation, so none is used twice, and the counters are beyond
\* every id handed out.
MonotonicIds ==
  /\ Increasing(batchLog)
  /\ Increasing(workerLog)
  /\ \A i \in 1..Len(batchLog) : batchLog[i] < batchIdCounter
  /\ \A i \in 1..Len(workerLog) : workerLog[i] < workerIdCounter

\* ids were handed out by createBatches, by splitBatch and by spawnWorker
WitnessMonotonicIds ==
  /\ Len(batchLog) > Len(createBatches(inputFiles, 0))
  /\ Len(workerLog) > Len(createBatches(inputFiles, 0))

\* C9 Termination, the part a finite run can refute: the master is never
\* left running with batches pending while no child process remains whose
\* events could run the spawn loop again.
NoStall ==
  ~(pc = "running" /\ Len(pendingBatches) > 0 /\ DOMAIN child = {})

\* C10 Exit status: the master finalizes with status 0 exactly if there is
\* no failure record and with 1 otherwise, and with status 0 every input
\* file has a result record.
ExitStatus ==
  Finalized =>
    /\ exitCode \in {0, 1}
    /\ exitCode = 0 <=> Len(failedFiles) = 0
    /\ exitCode = 0 => \A f \in Range(inputFiles) : CompletedCount(f) >= 1

\* a run with a failure has finalized
WitnessExitStatus ==
  /\ Finalized
  /\ exitCode = 1
  /\ Len(failedFiles) > 0
  /\ CompletedFiles # {}

\* the call of handleWorkerError under check and its outcome
Recovered == res # <<>> /\ Len(arg) = 4 /\ Len(res) = 1
Appended(before, after) ==
  [i \in 1..(Len(after) - Len(before)) |-> after[Len(before) + i]]
Kept(before, after) ==
  Len(after) >= Len(before) /\ SubSeq(after, 1, Len(before)) = before

\* C11 Retryable OOM: a batch that fails with kind oom, with retries below
\* maxRetries and at least two files, is bisected; its two children are
\* appended, left then right, after every batch already pending, and no
\* failure record is added.
RetryableOomRequeues ==
  (Recovered /\ arg[3] = "oom" /\ arg[2].retries < maxRetries
     /\ Len(arg[2].files) >= 2) =>
    LET m == arg[1]
        batch == arg[2]
        out == res[1]
        n == Len(batch.files)
        new == Appended(m.pendingBatches, out.pendingBatches)
    IN /\ Kept(m.pendingBatches, out.pendingBatches)
       /\ Len(new) = 2
       /\ new[1].files = SubSeq(batch.files, 1, n - (n \div 2))
       /\ new[2].files = SubSeq(batch.files, n - (n \div 2) + 1, n)
       /\ new[1].retries = batch.retries + 1
       /\ new[2].retries = batch.retries + 1
       /\ out.failedFiles = m.failedFiles

\* an odd batch bisected behind two waiting batches
WitnessRetryableOom ==
  /\ Recovered /\ arg[3] = "oom" /\ arg[2].retries = 1
  /\ Len(arg[2].files) = 3
  /\ Len(arg[1].pendingBatches) = 2
  /\ Len(res[1].pendingBatches) = 4

\* C12 Unretryable OOM: a batch that fails with kind oom with retries at
\* maxRetries or with one file only gets one failure record per file, with
\* reason oom, and nothing is queued.
UnretryableOomFails ==
  (Recovered /\ arg[3] = "oom"
     /\ (arg[2].retries = maxRetries \/ Len(arg[2].files) = 1)) =>
    LET m == arg[1]
        batch == arg[2]
        out == res[1]
        new == Appended(m.failedFiles, out.failedFiles)
    IN /\ Kept(m.failedFiles, out.failedFiles)
       /\ Len(new) = Len(batch.files)
       /\ \A i \in 1..Len(new) :
            new[i].file = batch.files[i] /\ new[i].reason = "oom"
       /\ out.pendingBatches = m.pendingBatches
       /\ out.batchIdCounter = m.batchIdCounter

\* a batch of several files out of retries, and a batch of one file with
\* retries left, have failed
WitnessUnretryableOom ==
  /\ Recovered /\ arg[3] = "oom"
  /\ \/ arg[2].retries = maxRetries /\ Len(arg[2].files) = 3
     \/ arg[2].retries = 0 /\ Len(arg[2].files) = 1
  /\ Len(res[1].failedFiles) = Len(arg[1].failedFiles) + Len(arg[2].files)

\* C13 Identified parse error: parse_error with a file adds exactly one
\* failure record, for that file and with reason parse_error; no other file
\* of the batch is recorded and nothing is queued.
ParseErrorFailsOneFile ==
  (Recovered /\ arg[3] = "parse_error" /\ arg[4] # NoFile) =>
    LET m == arg[1]
        out == res[1]
    IN /\ out.failedFiles =
            m.failedFiles \o <<[file |-> arg[4], reason |-> "parse_error"]>>
       /\ out.pendingBatches = m.pendingBatches
       /\ out.batchIdCounter = m.batchIdCounter

\* the second file of a batch of three with retries left was named
WitnessParseErrorOneFile ==
  /\ Recovered /\ arg[3] = "parse_error"
  /\ Len(arg[2].files) = 3 /\ arg[2].retries = 0
  /\ arg[4] = arg[2].files[2]
  /\ Len(res[1].failedFiles) = Len(arg[1].failedFiles) + 1

Observed == res # <<>> /\ Len(arg) = 5

\* the kind of failure an exit stands for: the exit code of a process ended
\* by a signal is null, which is not 0
ExitKind(code, signal, hasResult) ==
  IF signal = "SIGKILL" \/ code = 137 THEN "oom"
  ELSE IF code # 0 /\ ~hasResult THEN "unknown"
  ELSE "none"

\* C15 Exit classification: the exit of a worker removes it from active;
\* signal KILL or code 137 runs the recovery with kind oom; otherwise a code
\* other than 0 (an exit by another signal included) without a result
\* received runs it with kind unknown; otherwise no recovery runs; the
\* spawn loop runs afterwards in every case.
ExitClassification ==
  Observed =>
    LET pre == arg[1]
        w == arg[2]
        batch == pre.child[w].batch
        kind == ExitKind(arg[3], arg[4], w \in DOMAIN pre.completedResults)
        gone == [pre EXCEPT !.activeWorkers =
                   [x \in (DOMAIN @) \ {w} |-> @[x]]]
        recovered ==
          IF kind = "none" THEN gone
          ELSE [handleWorkerError(gone, batch, kind, NoFile)
                  EXCEPT !.hweCalls[w] = @ + 1]
        after == processNextBatch(recovered, arg[5])
    IN /\ w \notin DOMAIN res[1].activeWorkers
       /\ res[1] = [after EXCEPT !.child = [x \in (DOMAIN @) \ {w} |-> @[x]]]

\* a worker without a result was ended by a signal other than KILL, and the
\* spawn loop then started the next batch
WitnessExitClassification ==
  /\ Observed
  /\ arg[4] = "SIGTERM"
  /\ arg[2] \notin DOMAIN arg[1].completedResults
  /\ res[1].hweCalls[arg[2]] = 1
  /\ res[1].workerIdCounter > arg[1].workerIdCounter

IsSuffix(q, r) == \E k \in 0..Len(r) : q = SubSeq(r, k + 1, Len(r))

\* C16 Result/exit race: a worker whose result was received and which then
\* exits with code 0 is a success, also when events of other workers were
\* handled in between: its files are in completed, its exit adds no failure
\* record and queues no batch.
ResultThenCleanExit ==
  (Observed /\ arg[2] \in DOMAIN arg[1].completedResults
     /\ arg[3] = 0 /\ arg[4] = NoSignal) =>
    LET pre == arg[1]
        w == arg[2]
        out == res[1]
        done == UNION {Range(out.completedResults[v]) :
                         v \in DOMAIN out.completedResults}
    IN /\ Range(pre.child[w].batch.files) \subseteq done
       /\ out.failedFiles = pre.failedFiles
       /\ out.batchIdCounter = pre.batchIdCounter
       /\ IsSuffix(out.pendingBatches, pre.pendingBatches)
       /\ out.hweCalls[w] = 0

\* the exit was handled after the result of a worker spawned later
WitnessResultThenCleanExit ==
  /\ Observed /\ arg[2] \in DOMAIN arg[1].completedResults
  /\ arg[3] = 0 /\ arg[4] = NoSignal
  /\ Len(arg[1].workerStats) >= 2
  /\ arg[1].workerStats[Len(arg[1].workerStats)].id > arg[2]


\* C17 FIFO scheduling: batches leave the queue in the order in which they
\* were queued: the batches still pending are always the ones queued last,
\* in the order of their queueing, so no batch is spawned while a batch
\* queued before it is pending, and bisected children run after every batch
\* that was pending when they were queued.
FifoScheduling ==
  LET n == Len(batchLog)
      k == Len(pendingBatches)
  IN /\ k <= n
     /\ [i \in 1..k |-> pendingBatches[i].id] = SubSeq(batchLog, n - k + 1, n)

\* a child of a bisected batch runs while batches queued after it wait
WitnessFifoScheduling ==
  /\ \E w \in DOMAIN activeWorkers : activeWorkers[w].batch.retries >= 1
  /\ Len(pendingBatches) >= 1
  /\ Len(workerLog) >= 4


\* the RSS of the workers as the claim counts it: the latest sample of every
\* active worker that has one
RECURSIVE LatestSum(_, _)
LatestSum(active, S) ==
  IF S = {} THEN 0
  ELSE LET w == CHOOSE x \in S : TRUE
           s == active[w].samples
       IN (IF s = <<>> THEN 0 ELSE s[Len(s)]) + LatestSum(active, S \ {w})

\* C18 Admission predicate: canSpawnWorker is true exactly if fewer than
\* maxWorkers workers are active and the master's RSS plus the latest sample
\* of every active worker that has a sample is strictly below
\* containerLimitMB * memoryThresholdPercent / 100 (here in MiB); a worker
\* without a sample counts 0 and only active workers are counted.
AdmissionPredicate ==
  (res # <<>> /\ Len(arg) = 2) =>
    LET active == arg[1].activeWorkers
        withSample == {w \in DOMAIN active : active[w].samples # <<>>}
        total == arg[2] + LatestSum(active, withSample)
    IN res[1] = (/\ Cardinality(DOMAIN active) < maxWorkers
                 /\ total * 100 < containerLimitMB * memoryThresholdPercent)

\* admitted next to a worker whose latest sample is low after a high one
WitnessAdmissionPredicate ==
  /\ res = <<TRUE>> /\ Len(arg) = 2
  /\ \E w \in DOMAIN arg[1].activeWorkers :
       arg[1].activeWorkers[w].samples = <<2872, 100>>


\* an active worker has reported a sample
SampledWorkerActive ==
  \E w \in DOMAIN activeWorkers : activeWorkers[w].samples # <<>>

\* C19 (as stated) Scenario S6: the number of simultaneously active workers
\* caps at 1 over the whole run.
S6ConcurrencyCapsAtOne == Cardinality(DOMAIN activeWorkers) <= 1

\* C19 (amended) Scenario S6: no worker is spawned while an active worker has
\* reported a sample: a handler that spawns a worker leaves no active worker
\* with a sample.  Workers run side by side only if they were spawned while
\* no active worker had reported, as the first spawn loop does.
S6GatedOnceSampled ==
  [][workerIdCounter' > workerIdCounter => ~SampledWorkerActive']_vars

\* batches wait with slots free while a worker that has reported is active
WitnessS6Gated ==
  /\ SampledWorkerActive
  /\ Len(pendingBatches) > 0
  /\ Cardinality(DOMAIN activeWorkers) < S6MaxWorkers


Terminals == {i \in 1..Len(res) : res[i] \in {"result", "error"}}

\* C20 Worker terminal message: for one task a worker sends at most one
\* terminal message, a result or an error, and no message of any kind
\* after it.
OneTerminalMessage ==
  /\ Cardinality(Terminals) <= 1
  /\ \A i \in Terminals : i = Len(res)

\* a worker that sampled on the timer has sent its result and exited
WitnessOneTerminalMessage ==
  /\ arg.wpc = "exited" /\ arg.code = 0
  /\ arg.ticks >= 1
  /\ res[Len(res)] = "result"


\* C21 Worker exit code: a worker that has sent a terminal message, the
\* error of the uncaughtException handler included, exits with code 0, and
\* a worker exits with another code only when it is killed.
WorkerExitCode ==
  arg.wpc = "exited" =>
    /\ Terminals # {} => arg.code = 0
    /\ arg.code # 0 => arg.code = Null /\ Terminals = {}


\* C22 Unknown message kind: a message whose type is none of result, error
\* and memory is classified unknown, and the batch of its worker is handled
\* by the recovery policy with kind unknown.
UnknownMessageRecovered ==
  (res # <<>> /\ Len(arg) = 3
     /\ arg[3].type \notin {"result", "error", "memory"}) =>
    LET pre == arg[1]
        w == arg[2]
        batch == pre.child[w].batch
    IN /\ res[1].hweCalls[w] = pre.hweCalls[w] + 1
       /\ Len(res[1].failedFiles) = Len(pre.failedFiles) + Len(batch.files)
       /\ \A i \in 1..Len(batch.files) :
            res[1].failedFiles[Len(pre.failedFiles) + i] =
              [file |-> batch.files[i], reason |-> "unknown"]


\* C23 Failure injection is off by default: with scenario none,
\* shouldSimulateFailure returns shouldFail = false for every file, the
\* test hook of the worker never reaches executeFailure, and the master
\* passes neither --test nor --test-file to its workers.
InjectionOffByDefault ==
  (res # <<>> /\ Len(arg) = 3 /\ arg[2].scenario = "none") =>
    /\ ~res[1].first.shouldFail
    /\ res[1].hook.calls = 0
    /\ res[1].hook.end = "none"
    /\ \A i \in 1..Len(res[1].args) :
         res[1].args[i][1] \notin {"--test", "--test-file"}

\* scenario none with a target file given and files that match it
WitnessInjectionOff ==
  /\ res # <<>> /\ Len(arg) = 3 /\ arg[2].scenario = "none"
  /\ arg[2].targetFile = "db"
  /\ Len(arg[1]) = 2
  /\ \A i \in 1..2 : "db" \in arg[1][i] /\ "orderService" \in arg[1][i]
  /\ res[1].hook.end = "none"

RECURSIVE ConcatFiles(_, _)
ConcatFiles(batches, k) ==
  IF k = 0 THEN <<>>
  ELSE ConcatFiles(batches, k - 1) \o batches[k].files

\* C24 Initial partition: for a non-empty list of n files and divisor d,
\* with s = max(1, ceil(n/d)), the batches are the consecutive slices of
\* length s, the last possibly shorter: concatenated in id order they give
\* the input list, every batch is non-empty with retries 0, there are at
\* most d batches and every file is in exactly one batch.
InitialPartition ==
  res # <<>> =>
    LET files == arg[1]
        batches == res[1]
        n == Len(files)
        d == initialBatchDivisor
        s == IF (n + d - 1) \div d > 1 THEN (n + d - 1) \div d ELSE 1
    IN /\ Len(batches) <= d
       /\ Len(batches) >= 1
       /\ \A k \in 1..Len(batches) :
            /\ batches[k].id = arg[2] + k - 1
            /\ batches[k].retries = 0
            /\ batches[k].files # <<>>
            /\ Len(batches[k].files) <= s
            /\ k < Len(batches) => Len(batches[k].files) = s
            /\ batches[k].files = SubSeq(files, (k - 1) * s + 1,
                                         (k - 1) * s + Len(batches[k].files))
       /\ ConcatFiles(batches, Len(batches)) = files
       /\ \A f \in Range(files) :
            Cardinality({k \in 1..Len(batches) :
                           f \in Range(batches[k].files)}) = 1

\* 10 files give batches of sizes 3, 3, 3, 1
WitnessInitialPartition ==
  /\ res # <<>>
  /\ Len(arg[1]) = 10
  /\ [k \in 1..Len(res[1]) |-> Len(res[1][k].files)] = <<3, 3, 3, 1>>

\* C25 Happy path: with every worker succeeding, one worker is spawned per
\* initial batch (4 for 10 files), never more than maxWorkers are active at
\* once, and the run finalizes with processedFiles the number of input
\* files, failedFiles 0 and exit status 0.
HappyPathState ==
  /\ workerIdCounter <= Len(createBatches(inputFiles, 0))
  /\ Cardinality(DOMAIN activeWorkers) <= maxWorkers
  /\ Cardinality(DOMAIN child) <= maxWorkers
  /\ Finalized =>
       /\ summary[1].processedFiles = Len(inputFiles)
       /\ summary[1].failedFiles = 0
       /\ exitCode = 0
       /\ workerIdCounter = Len(createBatches(inputFiles, 0))
       /\ Len(inputFiles) = 10 =>
            /\ workerIdCounter = 4
            /\ summary[1].processedFiles = 10
            /\ Len(summary[1].workers) = 4
TransientOomRecovers ==
  (/\ Finalized
   /\ masterConfig.scenario = "oom-single"
   /\ masterConfig.oomRetryCount = 1
   /\ Len(inputFiles) = 6) =>
    /\ summary[1].processedFiles = 6
    /\ summary[1].failedFiles = 0
    /\ workerIdCounter >= 3
    /\ exitCode = 0

\* the file a worker fails on is a file that makes every worker exit 137
TargetKills == WorkerEnd(<<arg.target>>) = "oom"

\* the files of the initial batch that holds the target
TargetBatch ==
  LET batches == createBatches(inputFiles, 0)
      k == CHOOSE k \in 1..Len(batches) :
             arg.target \in Range(batches[k].files)
  IN batches[k].files

\* a running master has a child left whose exit runs the spawn loop again
PersistentOomState ==
  /\ pc = "running" => DOMAIN child # {}
  /\ (/\ Finalized
      /\ TargetKills
      /\ Len(TargetBatch) <= 2 ^ maxRetries) =>
    /\ failedFiles = <<[file |-> arg.target, reason |-> "oom"]>>
    /\ summary[1].failedFiles = 1
    /\ CompletedCount(arg.target) = 0
    /\ \A f \in Range(inputFiles) \ {arg.target} : CompletedCount(f) = 1
    /\ exitCode = 1

PersistentOomStep ==
  \A w \in DOMAIN child :
    (/\ TargetKills
     /\ child[w].batch.files = <<arg.target>>
     /\ w \notin DOMAIN child') =>
      /\ batchIdCounter' = batchIdCounter
      /\ failedFiles' = Append(failedFiles,
                               [file |-> arg.target, reason |-> "oom"])

\* C27 Persistent OOM: when one file makes every worker that handles it exit
\* with code 137 and its initial batch has at most 2^maxRetries files, the
\* run ends with exactly one failure record, naming that file with reason
\* oom, every other file completed, and exit status 1; a worker killed on the
\* singleton batch of the target fails the file at once, with no bisection.
PersistentOom == []PersistentOomState /\ [][PersistentOomStep]_vars

\* a target in an initial batch of 3 files, bisected, failed as a singleton
WitnessPersistentOom ==
  /\ Finalized
  /\ TargetKills
  /\ workerConfig.scenario = "oom-persistent"
  /\ Len(TargetBatch) = 3
  /\ failedFiles = <<[file |-> arg.target, reason |-> "oom"]>>
  /\ exitCode = 1

\* start was called once and stop at least once since
StoppedAfterOneStart == arg.starts = 1 /\ arg.stopsSince >= 1

StopIdempotentState ==
  StoppedAfterOneStart => arg.timer = NoTimer /\ arg.live = {}

StopIdempotentStep ==
  /\ arg'.stops > arg.stops => arg'.timeline = arg.timeline
  /\ (StoppedAfterOneStart /\ arg'.stops > arg.stops) =>
       /\ arg'.timer = arg.timer
       /\ arg'.live = arg.live
       /\ arg'.timeline = arg.timeline
       /\ arg'.file = arg.file
  /\ (StoppedAfterOneStart /\ arg'.starts = arg.starts) =>
       arg'.timeline \in {arg.timeline, Append(arg.timeline, "manual")}

\* C28 Idempotent sampler stop: after a single start(), one stop() cancels
\* and clears the timer, every further stop() changes nothing, no stop()
\* changes the timeline, and no periodic sample is appended after the stop.
StopIdempotent == []StopIdempotentState /\ [][StopIdempotentStep]_vars

\* one start, a periodic sample, then three calls of stop
WitnessStopIdempotent ==
  /\ arg.starts = 1
  /\ arg.stopsSince = 3
  /\ \E i \in 1..Len(arg.timeline) : arg.timeline[i] = "interval"
  /\ arg.timer = NoTimer

FinalizeOnceState ==
  Finalized =>
    /\ pc = "exited"
    /\ pendingBatches = <<>>
    /\ DOMAIN activeWorkers = {}

FinalizeOnceStep ==
  /\ (~Finalized /\ Finalized') =>
       /\ pendingBatches' = <<>>
       /\ DOMAIN activeWorkers' = {}
       /\ pc = "running" \/ pc = "init"
       /\ pc' = "exited"
  /\ Finalized => UNCHANGED vars
  /\ pc = "exited" => UNCHANGED vars

\* C29 Finalize runs only with pending empty and active empty, at most once
\* in a run, and after it no worker is spawned and nothing changes.
FinalizeOnce == []FinalizeOnceState /\ [][FinalizeOnceStep]_vars

\* finalized after a failure, while the process of a worker whose 'error'
\* event was handled still exists
WitnessFinalizeOnce ==
  /\ Finalized
  /\ workerIdCounter >= 2
  /\ Len(failedFiles) >= 1
  /\ DOMAIN child # {}

PendingIds == {pendingBatches[i].id : i \in 1..Len(pendingBatches)}
ActiveBatchIds == {activeWorkers[w].batch.id : w \in DOMAIN activeWorkers}

BatchAssignmentState ==
  /\ PendingIds \cap ActiveBatchIds = {}
  /\ PendingFiles \cap ActiveFiles = {}
  /\ \A i, j \in 1..Len(pendingBatches) :
       i # j => pendingBatches[i].id # pendingBatches[j].id
  /\ \A v, w \in DOMAIN child :
       v # w => child[v].batch.id # child[w].batch.id
  /\ \A w \in DOMAIN activeWorkers :
       w \in DOMAIN child /\ activeWorkers[w].batch = child[w].batch
  /\ Len(workerLog) + Len(pendingBatches) = Len(batchLog)

BatchAssignmentStep ==
  /\ \A w \in DOMAIN activeWorkers' \ DOMAIN activeWorkers :
       /\ activeWorkers'[w].batch.id \notin
            {pendingBatches'[i].id : i \in 1..Len(pendingBatches')}
       /\ \/ activeWorkers'[w].batch.id \in PendingIds
          \/ activeWorkers'[w].batch.id >= batchIdCounter
  /\ \A w \in DOMAIN activeWorkers \cap DOMAIN activeWorkers' :
       activeWorkers'[w].batch = activeWorkers[w].batch
  /\ (pc = "running" /\ batchIdCounter' > batchIdCounter) =>
       \E w \in DOMAIN child :
         /\ w \notin DOMAIN activeWorkers'
         /\ \A i \in 1..Len(pendingBatches') :
              pendingBatches'[i].id >= batchIdCounter =>
                /\ Range(pendingBatches'[i].files)
                     \subseteq Range(child[w].batch.files)
                /\ pendingBatches'[i].retries = child[w].batch.retries + 1

\* C30 Pending batches and active workers are disjoint: a batch leaves
\* pending when a worker is spawned for it, no batch is given to two
\* workers, a worker keeps the one batch it was spawned with, and the
\* children of a bisected batch are queued with its worker out of active.
BatchAssignment == []BatchAssignmentState /\ [][BatchAssignmentStep]_vars

\* the children of a bisected batch wait while another worker is active
WitnessBatchAssignment ==
  /\ \E i \in 1..Len(pendingBatches) : pendingBatches[i].retries >= 1
  /\ DOMAIN activeWorkers # {}
  /\ Len(workerLog) >= 2

\* the sample lists of the active workers
SampleLists == [w \in DOMAIN activeWorkers |-> activeWorkers[w].samples]

\* C31 An inbound memory message of worker w appends the sample to the
\* sample list of w and changes nothing else: pending, the workers in
\* active and their batches, completed, failed, worker_stats, the id
\* counters and the sample lists of the other workers stay as they are, and
\* no worker is spawned.
MemoryMessageFrame ==
  [][nsamples' > nsamples =>
       /\ \E w \in DOMAIN activeWorkers :
            /\ Len(activeWorkers'[w].samples) = Len(activeWorkers[w].samples) + 1
            /\ SubSeq(activeWorkers'[w].samples, 1,
                      Len(activeWorkers[w].samples)) = activeWorkers[w].samples
            /\ activeWorkers' =
                 [activeWorkers EXCEPT
                    ![w].samples = activeWorkers'[w].samples]
       /\ UNCHANGED <<pendingBatches, completedResults, failedFiles,
                      workerStats, batchIdCounter, workerIdCounter,
                      batchLog, workerLog, summary, exitCode, pc>>
       /\ DOMAIN child' = DOMAIN child]_vars

\* two active workers have both sampled, one of them twice
WitnessMemoryMessageFrame ==
  \E v, w \in DOMAIN activeWorkers :
    /\ v # w
    /\ Len(activeWorkers[v].samples) = 2
    /\ Len(activeWorkers[w].samples) = 1

StatsIds == {workerStats[i].id : i \in 1..Len(workerStats)}

ResultRecordedState ==
  /\ \A i, j \in 1..Len(workerStats) :
       i # j => workerStats[i].id # workerStats[j].id
  /\ StatsIds = DOMAIN completedResults

ResultRecordedStep ==
  workerStats' # workerStats =>
    \E w \in DOMAIN child :
      /\ workerStats' =
           Append(workerStats,
                  [id |-> w, files |-> Len(child[w].batch.files)])
      /\ w \in DOMAIN completedResults'
      /\ Len(completedResults'[w]) = Len(child[w].batch.files)
      /\ \A v \in DOMAIN completedResults :
           v \in DOMAIN completedResults'
             /\ completedResults'[v] = completedResults[v]
      /\ DOMAIN completedResults' = DOMAIN completedResults \cup {w}

\* C32 An inbound result of worker w stores its results in completed under
\* the id of w and appends one worker_stats entry, with the number of files
\* of the batch of w; worker_stats has no two entries with the same worker
\* id, and its entries are the workers in completed.
ResultRecorded == []ResultRecordedState /\ [][ResultRecordedStep]_vars

\* the worker of a bisected batch has reported after another worker
WitnessResultRecorded ==
  /\ Len(workerStats) >= 2
  /\ \E i \in 1..Len(workerStats) :
       /\ workerStats[i].id >= 2
       /\ workerStats[i].files >= 1
  /\ ooms >= 1

IsPrefix(s, t) == Len(s) <= Len(t) /\ SubSeq(t, 1, Len(s)) = s

\* C33 The terminal sinks are append-only: a failure record, a completed
\* result or a worker_stats entry, once recorded, is neither removed nor
\* changed by any later event, so the results of workers that succeeded
\* outlast the failures of other workers.
SinksAppendOnly ==
  [][/\ IsPrefix(failedFiles, failedFiles')
     /\ IsPrefix(workerStats, workerStats')
     /\ \A w \in DOMAIN completedResults :
          /\ w \in DOMAIN completedResults'
          /\ completedResults'[w] = completedResults[w]
     /\ Finalized' =>
          /\ summary'[1].failures = failedFiles'
          /\ summary'[1].workers = workerStats']_vars

\* a worker has reported and exited, and a failure was recorded after it
WitnessSinksAppendOnly ==
  /\ \E w \in DOMAIN completedResults : w \notin DOMAIN child
  /\ Len(failedFiles) >= 1
  /\ failedFiles[1].file \notin CompletedFiles
  /\ Finalized

\* the batches descending from initial batch r, r included, and those of
\* them that were not bisected
TreeOf(r) == {b \in DOMAIN arg : arg[b].root = r}
LeavesOf(r) ==
  {b \in TreeOf(r) : ~\E c \in TreeOf(r) : c # b /\ arg[c].parent = b}
InitialBatches == {b \in DOMAIN arg : arg[b].depth = 0}

\* C34 Bounded retries: the batches descending from one initial batch form
\* a binary tree of depth at most maxRetries, with at most 2^maxRetries
\* leaves, and it leads to at most 2^(maxRetries + 1) - 1 worker spawns; the
\* workers of a run are at most the initial batches times that figure.
BoundedRetries ==
  /\ \A b \in DOMAIN arg :
       /\ arg[b].depth <= maxRetries
       /\ Cardinality({c \in DOMAIN arg : c # b /\ arg[c].parent = b})
            \in {0, 2}
       /\ arg[b].depth > 0 => arg[arg[b].parent].depth = arg[b].depth - 1
  /\ \A i \in 1..Len(pendingBatches) :
       arg[pendingBatches[i].id].depth = pendingBatches[i].retries
  /\ \A r \in InitialBatches :
       /\ Cardinality(LeavesOf(r)) <= 2 ^ maxRetries
       /\ Cardinality(TreeOf(r)) <= 2 ^ (maxRetries + 1) - 1
       /\ Cardinality({w \in DOMAIN res : arg[res[w]].root = r})
            <= 2 ^ (maxRetries + 1) - 1
  /\ \A v, w \in DOMAIN res : v # w => res[v] # res[w]
  /\ workerIdCounter
       <= Cardinality(InitialBatches) * (2 ^ (maxRetries + 1) - 1)

\* an initial batch bisected to the full tree, a worker spawned for each of
\* its 2^(maxRetries + 1) - 1 batches
WitnessBoundedRetries ==
  \E r \in InitialBatches :
    /\ Cardinality(LeavesOf(r)) = 2 ^ maxRetries
    /\ Cardinality({w \in DOMAIN res : arg[res[w]].root = r})
         = 2 ^ (maxRetries + 1) - 1

\* C35 For every run that finalizes, the totalFiles of the summary, the sum
\* of the file counts of worker_stats plus the number of failure records,
\* equals the number of input files.
TotalFilesIsInput ==
  Finalized => summary[1].totalFiles = Len(inputFiles)

\* C36 Worker sampling order: the periodic sampling starts with the task
\* and is stopped before the terminal message is sent, so every memory
\* message of a worker comes before its result or error and none after it.
SamplingOrder ==
  /\ \A i, j \in 1..Len(res) :
       (res[i] = "memory" /\ res[j] \in {"result", "error"}) => i < j
  /\ Terminals # {} => ~arg.timer
  /\ arg.timer => arg.wpc \in {"prelint", "awaiting"}
  /\ arg.wpc = "idle" => res = <<>>
  /\ arg.ticks > 0 => \E i \in 1..Len(res) : res[i] = "memory"

\* a worker that sampled on the timer has caught an error, reported it
\* and exited
WitnessSamplingOrder ==
  /\ arg.wpc = "exited" /\ arg.code = 0
  /\ arg.ticks >= 1
  /\ res[Len(res)] = "error"
  /\ res[1] = "memory"

\* the rss of the memory messages among the first k messages sent
SampledRss(k) == {res[i].rss : i \in {j \in 1..k : res[j].type = "memory"}}

\* C37 Peak RSS: the peakRSS of a worker's result is the maximum rss over
\* the memory samples the worker took, each of which was sent as a memory
\* message; it is at least every sample the master holds for the worker,
\* and it is 0 only if no sample was taken.
PeakIsMaximum ==
  /\ arg.peakRSS = 0 <=> SampledRss(Len(res)) = {}
  /\ \A x \in SampledRss(Len(res)) : x <= arg.peakRSS
  /\ \A k \in 1..Len(res) :
       res[k].type = "result" =>
         /\ res[k].rss \in SampledRss(k)
         /\ \A x \in SampledRss(k) : x <= res[k].rss
         /\ \A x \in SampledRss(arg.received) : x <= res[k].rss
         /\ res[k].rss = arg.peakRSS

\* the result is received after samples that rose and fell again
WitnessPeakIsMaximum ==
  /\ arg.received = Len(res)
  /\ Len(res) = 4
  /\ res[4].type = "result" /\ res[4].rss = 300
  /\ res[1].rss = 100 /\ res[2].rss = 300 /\ res[3].rss = 200

HasParsePattern ==
  arg.patterns \cap {"Parsing error", "parserServices"} # {}
HasRulePattern == arg.patterns \cap {"Rule ", "rule '"} # {}

\* C38 The worker's classification of a caught error is total and ordered:
\* parse_error if the message has a parse pattern, whatever else it has,
\* otherwise rule_crash if it has a rule pattern, otherwise unknown; the
\* worker never sends an error of type oom.
ClassificationOrdered ==
  res # <<>> =>
    /\ res[1].errorType \in {"parse_error", "rule_crash", "unknown"}
    /\ res[1].errorType # "oom"
    /\ res[1].errorType # "parse_error" => res[1].file = NoFile
    /\ res[2] = "caught" =>
         res[1].errorType =
           IF HasParsePattern THEN "parse_error"
           ELSE IF HasRulePattern THEN "rule_crash"
           ELSE "unknown"

\* a caught message with a parse pattern and a rule pattern is parse_error
WitnessClassificationOrdered ==
  /\ res # <<>>
  /\ res[2] = "caught"
  /\ HasParsePattern /\ HasRulePattern
  /\ "heap out of memory" \in arg.patterns
  /\ res[1].errorType = "parse_error"
  /\ res[1].file = 1

\* C39 Test configuration parsing: with one --test=<scenario> and one
\* --test-file=<pattern> among the arguments, in either order, getTestConfig
\* returns that scenario together with that pattern.
BothArgumentsParsed ==
  res # <<>> =>
    \A i, j \in 1..Len(arg[1]) :
      (/\ arg[1][i][1] = "--test"
       /\ arg[1][j][1] = "--test-file"
       /\ \A k \in 1..Len(arg[1]) :
            k \notin {i, j} => arg[1][k][1] = "--target") =>
        /\ res[1].scenario = arg[1][i][2]
        /\ res[1].targetFile = arg[1][j][2]

\* C40 For any sequence of start() and stop() calls on a MemProfiler, a
\* second start() without a stop() between included, at most one timer of
\* the profiler is live, and none is live after the last stop().
OneLiveTimer ==
  /\ Cardinality(arg.live) <= 1
  /\ arg.stopsSince >= 1 => arg.live = {}

====
